---- MODULE Spec2Model ----
(***************************************************************************)
(* A model of the boba-tvl script: the BlockFinder (src/src/BlockFinder.js) *)
(* and the event fetcher, the series functions and main() of the script     *)
(* (src/unnamed/part_001).                                                  *)
(***************************************************************************)
EXTENDS Integers, Sequences, FiniteSets, TLC

VARIABLES
  chain,    \* the chain: chain[n + 1] is the timestamp of block number n
  head,     \* the number of the block requestBlock("latest") answers with
  blocks,   \* BlockFinder.blocks, the cache: a sequence of blocks
  calls,    \* the BlockFinder calls in flight, one record per call slot
  fetch,    \* the locals of one getRateLimitedEvents call
  fn,       \* the arguments and the result of one series-function application
  main      \* the locals of main()

vars == <<chain, head, blocks, calls, fetch, fn, main>>

(***************************************************************************)
(* Bounds of the model.                                                     *)
(***************************************************************************)
\* The chain has at most MaxHead + 1 blocks, numbered 0..MaxHead.
MaxHead == 4
\* A JS Number is an IEEE-754 double: a 53-bit significand, rounded to the
\* nearest, ties to even. TLC's integers have 32 bits, so the significand is
\* kept to SignificandBits bits here; the arithmetic is otherwise the same.
SignificandBits == 14

Min(a, b) == IF a < b THEN a ELSE b
Max(a, b) == IF a > b THEN a ELSE b
Abs(a) == IF a < 0 THEN -a ELSE a

RECURSIVE Pow(_, _)
Pow(b, n) == IF n = 0 THEN 1 ELSE b * Pow(b, n - 1)

RECURSIVE Gcd(_, _)
Gcd(a, b) == IF b = 0 THEN a ELSE Gcd(b, a % b)

(***************************************************************************)
(* JS Numbers. A finite number is [m, e], standing for m * 2^e, with m odd  *)
(* (or m = 0 and e = 0) and |m| < 2^SignificandBits. undefined and NaN are  *)
(* values of their own.                                                     *)
(***************************************************************************)
Undefined == [undef |-> TRUE]
NaN == [nan |-> TRUE]
IsNum(x) == DOMAIN x = {"m", "e"}

\* m * 2^e with the trailing zero bits of m moved into e.
RECURSIVE Normal(_, _)
Normal(m, e) ==
  IF m = 0 THEN [m |-> 0, e |-> 0]
  ELSE IF m % 2 = 0 THEN Normal(m \div 2, e + 1)
  ELSE [m |-> m, e |-> e]

\* The nearest number to n / d * 2^e (n >= 0, d > 0), ties to even: the
\* quotient is first brought to SignificandBits bits (or to an exact value).
RECURSIVE RoundPos(_, _, _)
RoundPos(n, d, e) ==
  LET q == n \div d
      r == n % d
  IN IF q >= Pow(2, SignificandBits)
       THEN \* too many bits: halve the quotient, that is double the divisor
            RoundPos(n, 2 * d, e + 1)
     ELSE IF r = 0 THEN Normal(q, e)
     ELSE IF q < Pow(2, SignificandBits - 1)
       THEN \* bits to spare and not exact yet: double the dividend
            RoundPos(2 * n, d, e - 1)
     ELSE IF 2 * r > d \/ (2 * r = d /\ q % 2 = 1) THEN Normal(q + 1, e)
     ELSE Normal(q, e)

\* The JS Number nearest to the rational n / d (d # 0).
Round(n, d) ==
  LET g == Gcd(Abs(n), Abs(d))
      nn == Abs(n) \div g
      dd == Abs(d) \div g
      pos == RoundPos(nn, dd, 0)
  IN IF n = 0 THEN [m |-> 0, e |-> 0]
     ELSE IF (n < 0) = (d < 0) THEN pos
     ELSE [m |-> -pos.m, e |-> pos.e]

FromInt(i) == Round(i, 1)
\* x * 2^k
Shift(x, k) == IF x.m = 0 THEN x ELSE [m |-> x.m, e |-> x.e + k]
\* The integer x / 2^e, for e <= x.e
Scaled(x, e) == x.m * Pow(2, x.e - e)

Infinity == [inf |-> TRUE]

\* a * b, a + b, a - b, a / b of JS: the exact result, rounded. undefined
\* converts to NaN, and NaN is contagious. A division by 0 gives NaN of 0 and
\* an infinity of any other number; no infinity is divided or added to here.
Finite(a, b) == IsNum(a) /\ IsNum(b)
JsMul(a, b) == IF Finite(a, b) THEN Shift(Round(a.m * b.m, 1), a.e + b.e) ELSE NaN
JsAdd(a, b) ==
  IF ~Finite(a, b) THEN NaN
  ELSE IF a.m = 0 THEN b
  ELSE IF b.m = 0 THEN a
  ELSE LET e == Min(a.e, b.e) IN Shift(Round(Scaled(a, e) + Scaled(b, e), 1), e)
JsSub(a, b) == IF Finite(a, b) THEN JsAdd(a, [b EXCEPT !.m = 0 - b.m]) ELSE NaN
JsDiv(a, b) ==
  IF ~Finite(a, b) THEN NaN
  ELSE IF b.m = 0 THEN (IF a.m = 0 THEN NaN ELSE Infinity)
  ELSE Shift(Round(a.m, b.m), a.e - b.e)

(***************************************************************************)
(* BlockFinder (src/src/BlockFinder.js).                                    *)
(***************************************************************************)
\* The timestamp of block 0, and the gaps between consecutive blocks' times.
GenesisTime == 10
Gaps == {1, 27}
\* The call slots: a sequential client uses slot 1 only.
CallIds == {1, 2}

Block(n) == [number |-> n, timestamp |-> chain[n + 1]]
\* requestBlock: web3.eth.getBlock(number) and web3.eth.getBlock("latest").
requestBlock(n) == Block(n)
requestLatest == Block(head)
\* blocks[index] of a JS array is undefined off its end; NoBlock stands for it.
NoBlock == [number |-> -1, timestamp |-> -1]
At(arr, index) == IF index >= 0 /\ index < Len(arr) THEN arr[index + 1] ELSE NoBlock

\* lodash.sortedIndexBy(arr, value, key): the binary search of lodash's
\* baseSortedIndexBy, lowest index first.
RECURSIVE binarySearch(_, _, _, _, _)
binarySearch(arr, key, value, low, high) ==
  IF low < high
    THEN LET mid == (low + high) \div 2
         IN IF arr[mid + 1][key] < value
              THEN binarySearch(arr, key, value, mid + 1, high)
              ELSE binarySearch(arr, key, value, low, mid)
    ELSE high
sortedIndexBy(arr, value, key) == binarySearch(arr, key, value, 0, Len(arr))

\* A splice that appends, whatever the index.
spliceAtEnd(arr, index, block) == Append(arr, block)

\* arr.splice(index, 0, block)
spliceIn(arr, index, block) ==
  LET k == Min(index, Len(arr))
  IN SubSeq(arr, 1, k) \o <<block>> \o SubSeq(arr, k + 1, Len(arr))

\* estimateBlocksElapsed(seconds, 1.1), as line 30 calls it, with
\* averageBlockTimeSeconds() = 13.5: cushionMultiplier is 1.1 + 1.0 (line 99),
\* so this is Math.floor((seconds * 2.1) / 13.5). On doubles that is
\* floor(21 s / 135) for every s below 3,000,000.
estimateBlocksElapsed(seconds) == (seconds * 21) \div 135

\* getBlockForTimestamp, line 30.
incrementDistanceOf(initialBlock, timestamp) ==
  Max(estimateBlocksElapsed(initialBlock.timestamp - timestamp), 1)

\* findBlock, lines 82-85: startBlock.number + Math.round(blockPercentile *
\* totalBlockDistance). The quotient and the product are rounded doubles, so on
\* an exact half the result is either neighbour: both are kept.
estimatedBlocks(startBlock, endBlock, timestamp) ==
  LET totalTimeDifference == endBlock.timestamp - startBlock.timestamp
      totalBlockDistance == endBlock.number - startBlock.number
      x == (timestamp - startBlock.timestamp) * totalBlockDistance
      exact == (2 * x + totalTimeDifference) \div (2 * totalTimeDifference)
      half == (2 * x) % (2 * totalTimeDifference) = totalTimeDifference
  IN {startBlock.number + exact} \cup (IF half THEN {startBlock.number + exact - 1} ELSE {})

\* A clamp that lets the estimate through.
clampNot(n, lower, upper) == n

\* lodash.clamp(number, lower, upper)
clamp(n, lower, upper) == Max(Min(n, upper), lower)

IdleCall ==
  [pc |-> "idle", op |-> "none", timestamp |-> 0, initialBlock |-> NoBlock,
   incrementDistance |-> 0, multiplier |-> 0, startBlock |-> NoBlock,
   endBlock |-> NoBlock, index |-> 0, number |-> 0, result |-> NoBlock,
   error |-> "none"]

Returned(op, timestamp, block) ==
  [IdleCall EXCEPT !.pc = "done", !.op = op, !.timestamp = timestamp, !.result = block]
Thrown(op, timestamp, error) ==
  [IdleCall EXCEPT !.pc = "failed", !.op = op, !.timestamp = timestamp, !.error = error]

\* A bracket taken one place too high in the cache.
bracketAbove(call, arr) ==
  LET index == sortedIndexBy(arr, call.timestamp, "timestamp")
  IN [call EXCEPT !.pc = "find", !.startBlock = At(arr, index),
                  !.endBlock = At(arr, index + 1)]

\* getBlockForTimestamp, lines 42-44: the bracket around the timestamp, and
\* the synchronous call of findBlock with it.
bracket(call, arr) ==
  LET index == sortedIndexBy(arr, call.timestamp, "timestamp")
  IN [call EXCEPT !.pc = "find", !.startBlock = At(arr, index - 1),
                  !.endBlock = At(arr, index)]

\* getBlockForTimestamp, lines 26-31 and 42-44: what follows the first step.
afterLatest(call, arr) ==
  IF arr[1].timestamp > call.timestamp
    THEN [call EXCEPT !.pc = "walk", !.initialBlock = arr[1],
                      !.incrementDistance = incrementDistanceOf(arr[1], call.timestamp),
                      !.multiplier = 1]
    ELSE bracket(call, arr)

\* A walk that gives up at the first block later than the timestamp.
afterProbeGivesUp(call, arr, blockNumber, block) ==
  IF block.timestamp <= call.timestamp THEN bracket(call, arr)
  ELSE Thrown("getBlockForTimestamp", call.timestamp, "timestamp is before block 0")

\* getBlockForTimestamp, lines 37-38, with the block getBlock returned.
afterProbe(call, arr, blockNumber, block) ==
  IF block.timestamp <= call.timestamp THEN bracket(call, arr)
  ELSE IF blockNumber > 0 THEN [call EXCEPT !.pc = "walk", !.multiplier = @ + 1]
  ELSE Thrown("getBlockForTimestamp", call.timestamp, "timestamp is before block 0")

\* A narrowing that keeps the wrong half.
narrowWrongHalf(call, newBlock) ==
  IF newBlock.timestamp > call.timestamp
    THEN [call EXCEPT !.pc = "find", !.startBlock = newBlock]
    ELSE [call EXCEPT !.pc = "find", !.endBlock = newBlock]

\* findBlock, lines 91-95, with the block getBlock returned.
narrow(call, newBlock) ==
  IF newBlock.timestamp < call.timestamp
    THEN [call EXCEPT !.pc = "find", !.startBlock = newBlock]
    ELSE [call EXCEPT !.pc = "find", !.endBlock = newBlock]

Free(c) == calls[c].pc \in {"idle", "done", "failed"}
\* The timestamps a client asks for: around each block's.
Timestamps == UNION {{chain[i] - 1, chain[i], chain[i] + 1} : i \in 1..Len(chain)}

\* getBlockForTimestamp(timestamp), lines 16-23, up to its first await.
GetBlockForTimestamp(c, timestamp) ==
  /\ Free(c)
  /\ LET call == [IdleCall EXCEPT !.op = "getBlockForTimestamp", !.timestamp = timestamp]
     IN calls' = [calls EXCEPT ![c] =
          IF Len(blocks) = 0 \/ blocks[Len(blocks)].timestamp < timestamp
            THEN [call EXCEPT !.pc = "gbftLatest"]
            ELSE afterLatest(call, blocks)]
  /\ UNCHANGED <<chain, head, blocks>>

\* getLatestBlock, lines 49-52: the cache once the latest block has arrived.
withLatest(arr, block) ==
  LET index == sortedIndexBy(arr, block.number, "number")
  IN IF At(arr, index) = NoBlock \/ At(arr, index).number # block.number
       THEN spliceIn(arr, index, block)
       ELSE arr
latestOf(arr, block) == At(withLatest(arr, block), sortedIndexBy(arr, block.number, "number"))

\* getBlockForTimestamp, lines 21-22: the latest block has arrived.
GbftLatest(c) ==
  /\ calls[c].pc = "gbftLatest"
  /\ LET arr == withLatest(blocks, requestLatest)
         block == latestOf(blocks, requestLatest)
     IN /\ blocks' = arr
        /\ calls' = [calls EXCEPT ![c] =
             IF calls[c].timestamp >= block.timestamp
               THEN Returned("getBlockForTimestamp", calls[c].timestamp, block)
               ELSE afterLatest(calls[c], arr)]
  /\ UNCHANGED <<chain, head>>

\* getBlockForTimestamp, lines 33-36: one turn of the backward walk, up to the
\* request of getBlock (line 59) or, on a cached block, to lines 37-38.
Walk(c) ==
  /\ calls[c].pc = "walk"
  /\ LET call == calls[c]
         distance == call.multiplier * call.incrementDistance
         blockNumber == Max(0, call.initialBlock.number - distance)
         index == sortedIndexBy(blocks, blockNumber, "number")
     IN calls' = [calls EXCEPT ![c] =
          IF At(blocks, index) # NoBlock /\ At(blocks, index).number = blockNumber
            THEN afterProbe(call, blocks, blockNumber, At(blocks, index))
            ELSE [call EXCEPT !.pc = "walkRequest", !.index = index, !.number = blockNumber]]
  /\ UNCHANGED <<chain, head, blocks>>

\* getBlock, lines 59-61, called by the walk: the block has arrived.
WalkResponse(c) ==
  /\ calls[c].pc = "walkRequest"
  /\ LET block == requestBlock(calls[c].number)
         arr == spliceIn(blocks, calls[c].index, block)
     IN /\ blocks' = arr
        /\ calls' = [calls EXCEPT ![c] = afterProbe(calls[c], arr, calls[c].number, block)]
  /\ UNCHANGED <<chain, head>>

\* findBlock, lines 65-88, up to the request of getBlock or, on a cached
\* block, to lines 91-95.
Find(c) ==
  /\ calls[c].pc = "find"
  /\ LET call == calls[c]
         startBlock == call.startBlock
         endBlock == call.endBlock
         op == "getBlockForTimestamp"
     IN \/ /\ endBlock = NoBlock
           /\ calls' = [calls EXCEPT ![c] = Thrown(op, call.timestamp, "TypeError")]
        \/ /\ endBlock # NoBlock
           /\ endBlock.timestamp = call.timestamp
           /\ calls' = [calls EXCEPT ![c] = Returned(op, call.timestamp, endBlock)]
        \/ /\ endBlock # NoBlock
           /\ endBlock.timestamp # call.timestamp
           /\ startBlock = NoBlock
           /\ calls' = [calls EXCEPT ![c] = Thrown(op, call.timestamp, "TypeError")]
        \/ /\ endBlock # NoBlock /\ startBlock # NoBlock
           /\ endBlock.timestamp # call.timestamp
           /\ endBlock.number = startBlock.number + 1
           /\ calls' = [calls EXCEPT ![c] = Returned(op, call.timestamp, startBlock)]
        \/ /\ endBlock # NoBlock /\ startBlock # NoBlock
           /\ endBlock.timestamp # call.timestamp
           /\ endBlock.number # startBlock.number + 1
           /\ \/ endBlock.number = startBlock.number
              \/ ~(call.timestamp < endBlock.timestamp /\ call.timestamp > startBlock.timestamp)
           /\ calls' = [calls EXCEPT ![c] = Thrown(op, call.timestamp, "AssertionError")]
        \/ /\ endBlock # NoBlock /\ startBlock # NoBlock
           /\ endBlock.timestamp # call.timestamp
           /\ endBlock.number # startBlock.number + 1
           /\ endBlock.number # startBlock.number
           /\ call.timestamp < endBlock.timestamp /\ call.timestamp > startBlock.timestamp
           /\ \E estimatedBlock \in estimatedBlocks(startBlock, endBlock, call.timestamp) :
                LET number == clamp(estimatedBlock, startBlock.number + 1, endBlock.number - 1)
                    index == sortedIndexBy(blocks, number, "number")
                IN calls' = [calls EXCEPT ![c] =
                     IF At(blocks, index) # NoBlock /\ At(blocks, index).number = number
                       THEN narrow(call, At(blocks, index))
                       ELSE [call EXCEPT !.pc = "findRequest", !.index = index,
                                         !.number = number]]
  /\ UNCHANGED <<chain, head, blocks>>

\* getBlock, lines 59-61, called by findBlock: the block has arrived.
FindResponse(c) ==
  /\ calls[c].pc = "findRequest"
  /\ LET block == requestBlock(calls[c].number)
     IN /\ blocks' = spliceIn(blocks, calls[c].index, block)
        /\ calls' = [calls EXCEPT ![c] = narrow(calls[c], block)]
  /\ UNCHANGED <<chain, head>>

\* getBlock(number), lines 56-59, called by a client.
GetBlock(c, number) ==
  /\ Free(c)
  /\ LET index == sortedIndexBy(blocks, number, "number")
     IN calls' = [calls EXCEPT ![c] =
          IF At(blocks, index) # NoBlock /\ At(blocks, index).number = number
            THEN Returned("getBlock", 0, At(blocks, index))
            ELSE [IdleCall EXCEPT !.pc = "getBlockRequest", !.op = "getBlock",
                                  !.index = index, !.number = number]]
  /\ UNCHANGED <<chain, head, blocks>>

\* getBlock, lines 59-61: the block has arrived.
GetBlockResponse(c) ==
  /\ calls[c].pc = "getBlockRequest"
  /\ LET block == requestBlock(calls[c].number)
     IN /\ blocks' = spliceIn(blocks, calls[c].index, block)
        /\ calls' = [calls EXCEPT ![c] = Returned("getBlock", 0, block)]
  /\ UNCHANGED <<chain, head>>

\* getLatestBlock(), line 49, called by a client.
GetLatestBlock(c) ==
  /\ Free(c)
  /\ calls' = [calls EXCEPT ![c] =
       [IdleCall EXCEPT !.pc = "latestRequest", !.op = "getLatestBlock"]]
  /\ UNCHANGED <<chain, head, blocks>>

\* getLatestBlock, lines 50-52: the latest block has arrived.
GetLatestBlockResponse(c) ==
  /\ calls[c].pc = "latestRequest"
  /\ blocks' = withLatest(blocks, requestLatest)
  /\ calls' = [calls EXCEPT ![c] =
       Returned("getLatestBlock", 0, latestOf(blocks, requestLatest))]
  /\ UNCHANGED <<chain, head>>

\* The chain grows by a block.
Mine ==
  /\ head < Len(chain) - 1
  /\ head' = head + 1
  /\ UNCHANGED <<chain, blocks, calls>>

\* The chains: strictly increasing timestamps from GenesisTime.
RECURSIVE Chains(_)
Chains(n) ==
  IF n = 0 THEN {<<GenesisTime>>}
  ELSE {ch \o <<ch[Len(ch)] + g>> : ch \in Chains(n - 1), g \in Gaps}

NoFetch == [pc |-> "none"]
NoFn == [op |-> "none"]
NoMain == [pc |-> "none"]

\* A BlockFinder with an empty cache, used by one client, one call at a time.
InitBF ==
  /\ chain \in Chains(MaxHead)
  /\ head \in 0..MaxHead
  /\ blocks = <<>>
  /\ calls = [c \in CallIds |-> IdleCall]
  /\ fetch = NoFetch /\ fn = NoFn /\ main = NoMain

BlockFinderStep(c) ==
  \/ GbftLatest(c)
  \/ Walk(c)
  \/ WalkResponse(c)
  \/ Find(c)
  \/ FindResponse(c)
  \/ GetBlockResponse(c)
  \/ GetLatestBlockResponse(c)

NextBF ==
  \/ \E timestamp \in Timestamps : GetBlockForTimestamp(1, timestamp) /\ UNCHANGED <<fetch, fn, main>>
  \/ \E number \in 0..head : GetBlock(1, number) /\ UNCHANGED <<fetch, fn, main>>
  \/ GetLatestBlock(1) /\ UNCHANGED <<fetch, fn, main>>
  \/ BlockFinderStep(1) /\ UNCHANGED <<fetch, fn, main>>
  \/ Mine /\ UNCHANGED <<fetch, fn, main>>

SpecBF == InitBF /\ [][NextBF]_vars

\* The node answers every block request, and a call that can go on does.
Proceeds == BlockFinderStep(1) /\ UNCHANGED <<fetch, fn, main>>
SpecBFAnswered == InitBF /\ [][NextBF]_vars /\ WF_vars(Proceeds)

\* Calls in flight together: either client starts a call while the other's
\* is suspended at a request, and the answers come in any order. A client
\* starts a call only while the cache holds fewer than MaxCached blocks.
MaxCached == 2

\* The chains with one gap throughout.
EvenChains ==
  {ch \in Chains(MaxHead) : \A i \in 2..(Len(ch) - 1) : ch[i + 1] - ch[i] = ch[2] - ch[1]}

InitShared ==
  /\ chain \in EvenChains
  /\ head = MaxHead
  /\ blocks = <<>>
  /\ calls = [c \in CallIds |-> IdleCall]
  /\ fetch = NoFetch /\ fn = NoFn /\ main = NoMain

NextShared ==
  \/ \E c \in CallIds : \E timestamp \in Timestamps :
       /\ Len(blocks) < MaxCached
       /\ GetBlockForTimestamp(c, timestamp) /\ UNCHANGED <<fetch, fn, main>>
  \/ \E c \in CallIds : \E number \in 0..head :
       /\ Len(blocks) < MaxCached
       /\ GetBlock(c, number) /\ UNCHANGED <<fetch, fn, main>>
  \/ \E c \in CallIds :
       /\ Len(blocks) < MaxCached
       /\ GetLatestBlock(c) /\ UNCHANGED <<fetch, fn, main>>
  \/ \E c \in CallIds : BlockFinderStep(c) /\ UNCHANGED <<fetch, fn, main>>

SpecShared == InitShared /\ [][NextShared]_vars

(***************************************************************************)
(* getRateLimitedEvents (src/unnamed/part_001, lines 29-51). The contract   *)
(* holds one event per block, named by its block number.                    *)
(***************************************************************************)
\* The ranges fetched lie within blocks 0..MaxBlock.
MaxBlock == 5
\* The node refuses at most MaxFailures requests of a call.
MaxFailures == 2

\* contract.getPastEvents(eventName, {fromBlock, toBlock}), when it succeeds.
getPastEvents(fromBlock, toBlock) ==
  [i \in 1..(IF toBlock >= fromBlock THEN toBlock - fromBlock + 1 ELSE 0) |-> fromBlock + i - 1]

\* Lines 30-32: the locals at the top of the loop.
getRateLimitedEvents(fromBlock, toBlock) ==
  [pc |-> "request", fromBlock |-> fromBlock, toBlock |-> toBlock, events |-> <<>>,
   lastBlock |-> fromBlock - 1, blockRange |-> toBlock - (fromBlock - 1),
   failures |-> 0]

\* A loop that keeps its window after a request that succeeded.
advanceKeepsWindow(f) ==
  IF f.lastBlock + 1 + f.blockRange < f.toBlock
    THEN [f EXCEPT !.lastBlock = @ + f.blockRange]
    ELSE [f EXCEPT !.pc = "done"]

\* Lines 43-48: after a request that succeeded.
advance(f) ==
  IF f.lastBlock + 1 + f.blockRange < f.toBlock
    THEN [f EXCEPT !.lastBlock = @ + f.blockRange, !.blockRange = 2 * @]
    ELSE [f EXCEPT !.pc = "done"]

\* Lines 35-38 and 43-48: the request succeeds.
RequestSucceeds ==
  /\ fetch.pc = "request"
  /\ fetch' = advance([fetch EXCEPT !.events =
       @ \o getPastEvents(fetch.lastBlock + 1,
                          Min(fetch.lastBlock + fetch.blockRange, fetch.toBlock))])
  /\ UNCHANGED <<chain, head, blocks, calls, fn, main>>

\* Lines 39-41: the request fails.
RequestFails ==
  /\ fetch.pc = "request"
  /\ fetch.failures < MaxFailures
  /\ fetch' = [fetch EXCEPT !.blockRange = Max(@ \div 2, 1), !.failures = @ + 1]
  /\ UNCHANGED <<chain, head, blocks, calls, fn, main>>

NoChain == <<>>
NoCalls == [c \in CallIds |-> IdleCall]

InitFetch ==
  /\ \E fromBlock \in 0..MaxBlock : \E toBlock \in fromBlock..MaxBlock :
       fetch = getRateLimitedEvents(fromBlock, toBlock)
  /\ chain = NoChain /\ head = 0 /\ blocks = <<>> /\ calls = NoCalls
  /\ fn = NoFn /\ main = NoMain

NextFetch == RequestSucceeds \/ RequestFails

SpecFetch == InitFetch /\ [][NextFetch]_vars

\* A node that refuses a request without the window being halved.
RefusedKeepsWindow ==
  /\ fetch.pc = "request"
  /\ UNCHANGED vars

\* The loop against a node with a limit: a request whose window is over the
\* limit it refuses, one within the limit it serves, at once or after it has
\* refused it some times. The limit 0 is the node that refuses every request.
\* Refusals are not counted here, so that they may go on for ever.
Limits == 0..(MaxBlock + 1)

\* Lines 35-38 and 43-48: the node serves a request within its limit.
Served ==
  /\ fetch.blockRange <= fetch.limit
  /\ RequestSucceeds

\* Lines 39-41: the node refuses the request.
Refused ==
  /\ fetch.pc = "request"
  /\ fetch' = [fetch EXCEPT !.blockRange = Max(@ \div 2, 1)]
  /\ UNCHANGED <<chain, head, blocks, calls, fn, main>>

\* The node refuses a request over its limit.
Overloaded ==
  /\ fetch.blockRange > fetch.limit
  /\ Refused

InitNode ==
  /\ \E fromBlock \in 0..MaxBlock : \E toBlock \in fromBlock..MaxBlock : \E limit \in Limits :
       fetch = [name \in DOMAIN getRateLimitedEvents(fromBlock, toBlock) \cup {"limit"} |->
                  IF name = "limit" THEN limit
                  ELSE getRateLimitedEvents(fromBlock, toBlock)[name]]
  /\ chain = NoChain /\ head = 0 /\ blocks = <<>> /\ calls = NoCalls
  /\ fn = NoFn /\ main = NoMain

NextNode == Served \/ Refused

\* The node answers every request: one over its limit it refuses, and one
\* within its limit it serves in the end.
SpecNode == InitNode /\ [][NextNode]_vars /\ WF_vars(Overloaded) /\ WF_vars(Served)

(***************************************************************************)
(* The series functions (src/unnamed/part_001, lines 127-175). A series is  *)
(* a sequence of balance items. A property an item does not have reads      *)
(* undefined; an absent timestamp is NoTimestamp, for which every           *)
(* comparison is false and which is falsy, as undefined is.                 *)
(***************************************************************************)
NoTimestamp == -1
Item(blockNumber, rawBalance, timestamp, tokenBalance, price, value) ==
  [blockNumber |-> blockNumber, rawBalance |-> rawBalance, timestamp |-> timestamp,
   tokenBalance |-> tokenBalance, price |-> price, value |-> value]
\* {timestamp: t}
TimestampOnly(t) == Item(Undefined, Undefined, t, Undefined, Undefined, Undefined)

\* a > b, a < b, a >= b of JS on timestamps, either of which may be undefined.
JsGt(a, b) == a # NoTimestamp /\ b # NoTimestamp /\ a > b
JsLt(a, b) == a # NoTimestamp /\ b # NoTimestamp /\ a < b
JsGe(a, b) == a # NoTimestamp /\ b # NoTimestamp /\ a >= b
\* The truthiness of a timestamp: undefined and 0 are falsy.
Truthy(t) == t # NoTimestamp /\ t # 0

\* arr.findIndex(callback), given the callback's answer for each element: the
\* first (0-based) index whose element satisfies it, or -1.
findIndex(answers) ==
  IF \E i \in 1..Len(answers) : answers[i]
    THEN (CHOOSE i \in 1..Len(answers) : answers[i] /\ \A j \in 1..(i - 1) : ~answers[j]) - 1
    ELSE -1

\* arr.splice(index, 0, item)
insertAt(arr, index, item) ==
  SubSeq(arr, 1, index) \o <<item>> \o SubSeq(arr, index + 1, Len(arr))

\* An addFirstBalance that copies the item after the start, not the one before.
addFirstBalanceFromNext(tokenBalances, startTimestamp) ==
  LET later(balanceItem) == JsGt(balanceItem.timestamp, startTimestamp)
      firstBalanceIndex == findIndex([i \in 1..Len(tokenBalances) |-> later(tokenBalances[i])])
  IN IF firstBalanceIndex = -1
       THEN Append(tokenBalances,
                   IF Len(tokenBalances) = 0 THEN TimestampOnly(startTimestamp)
                   ELSE [tokenBalances[Len(tokenBalances)] EXCEPT !.timestamp = startTimestamp])
     ELSE insertAt(tokenBalances, firstBalanceIndex,
                   [tokenBalances[firstBalanceIndex + 1] EXCEPT !.timestamp = startTimestamp])

\* addFirstBalance(tokenBalances, startTimestamp), lines 143-158: the series
\* after the call.
addFirstBalance(tokenBalances, startTimestamp) ==
  LET later(balanceItem) == JsGt(balanceItem.timestamp, startTimestamp)
      firstBalanceIndex == findIndex([i \in 1..Len(tokenBalances) |-> later(tokenBalances[i])])
  IN IF firstBalanceIndex = -1
       THEN \* {...tokenBalances.slice(-1)[0], timestamp}: of an empty series,
            \* the spread of undefined, which has no property
            Append(tokenBalances,
                   IF Len(tokenBalances) = 0 THEN TimestampOnly(startTimestamp)
                   ELSE [tokenBalances[Len(tokenBalances)] EXCEPT !.timestamp = startTimestamp])
     ELSE IF firstBalanceIndex = 0
       THEN insertAt(tokenBalances, 0,
                     [TimestampOnly(startTimestamp) EXCEPT !.tokenBalance = FromInt(0),
                                                           !.value = FromInt(0)])
     ELSE \* tokenBalances[firstBalanceIndex - 1], counted from 0, is the
          \* firstBalanceIndex-th item
          insertAt(tokenBalances, firstBalanceIndex,
                   [tokenBalances[firstBalanceIndex] EXCEPT !.timestamp = startTimestamp])

\* A cumValue that weights every item by the time to the end.
RECURSIVE cumValueToEnd(_, _, _)
cumValueToEnd(selectedBalances, endTimestamp, k) ==
  IF k = 0 THEN FromInt(0)
  ELSE JsAdd(cumValueToEnd(selectedBalances, endTimestamp, k - 1),
             JsMul(selectedBalances[k].value,
                   FromInt(endTimestamp - selectedBalances[k].timestamp)))

\* calculateTwap, lines 166-173: cumValue after the first k selected items.
RECURSIVE cumValueOf(_, _, _)
cumValueOf(selectedBalances, endTimestamp, k) ==
  IF k = 0 THEN FromInt(0)
  ELSE LET balanceItem == selectedBalances[k]
           timePeriod == IF k < Len(selectedBalances)
                           THEN selectedBalances[k + 1].timestamp - balanceItem.timestamp
                           ELSE endTimestamp - balanceItem.timestamp
       IN JsAdd(cumValueOf(selectedBalances, endTimestamp, k - 1),
                JsMul(balanceItem.value, FromInt(timePeriod)))

\* calculateTwap(tokenBalances, startTimestamp, endTimestamp), lines 161-175,
\* for startTimestamp < endTimestamp.
calculateTwap(tokenBalances, startTimestamp, endTimestamp) ==
  LET selected(balanceItem) ==
        /\ Truthy(balanceItem.timestamp)
        /\ balanceItem.timestamp >= startTimestamp
        /\ balanceItem.timestamp < endTimestamp
      selectedBalances == SelectSeq(tokenBalances, selected)
  IN JsDiv(cumValueOf(selectedBalances, endTimestamp, Len(selectedBalances)),
           FromInt(endTimestamp - startTimestamp))

\* A price point is [ms, price]: timestampPrice[0] and timestampPrice[1].
\* timestampPrice[0] / 1000 > timestamp
AfterTime(timestampPrice, timestamp) ==
  timestamp # NoTimestamp /\ timestampPrice.ms > 1000 * timestamp

\* A getCoingeckoPriceAt that returns the next price, not the last one.
getCoingeckoPriceNext(prices, timestamp) ==
  LET next(timestampPrice) == AfterTime(timestampPrice, timestamp)
      nextPriceIndex == findIndex([i \in 1..Len(prices) |-> next(prices[i])])
  IN IF nextPriceIndex = -1
       THEN IF Len(prices) = 0 THEN [throws |-> "TypeError"]
            ELSE [price |-> prices[Len(prices)].price]
     ELSE IF nextPriceIndex = 0 THEN [throws |-> "No price available"]
     ELSE [price |-> prices[nextPriceIndex + 1].price]

\* getCoingeckoPriceAt(tokenPrices, tokenAddress, timestamp), lines 127-140,
\* on prices = tokenPrices[tokenAddress]: [price] when it returns, [throws]
\* when it throws.
getCoingeckoPriceAt(prices, timestamp) ==
  LET next(timestampPrice) == AfterTime(timestampPrice, timestamp)
      nextPriceIndex == findIndex([i \in 1..Len(prices) |-> next(prices[i])])
  IN IF nextPriceIndex = -1
       THEN IF Len(prices) = 0 THEN [throws |-> "TypeError"]
            ELSE [price |-> prices[Len(prices)].price]
     ELSE IF nextPriceIndex = 0 THEN [throws |-> "No price available"]
     ELSE \* tokenPrices[tokenAddress][nextPriceIndex - 1], counted from 0
          [price |-> prices[nextPriceIndex].price]

(***************************************************************************)
(* The series functions applied to the series main() can hand them: the     *)
(* items without a timestamp first, then the others by ascending timestamp. *)
(***************************************************************************)
\* Timestamps are 1..MaxTime, series given have at most MaxSeries items and
\* grow by at most two, price series have at most MaxPrices points.
MaxTime == 3
MaxSeries == 2
MaxPrices == 3

\* An integer whose products with a weight of 3 need rounding.
BigValue == Pow(2, SignificandBits - 1) - 1

\* The items given: a balance with its value.
GivenItems ==
  {Item(Undefined, Undefined, t, FromInt(kind[1]), Undefined, FromInt(kind[2])) :
     t \in {NoTimestamp} \cup (1..MaxTime), kind \in {<<1, 3>>, <<2, BigValue>>}}

TimeOrdered(arr) ==
  \A i \in 1..(Len(arr) - 1) :
    \/ arr[i].timestamp = NoTimestamp
    \/ arr[i + 1].timestamp # NoTimestamp /\ arr[i].timestamp <= arr[i + 1].timestamp

GivenSeries ==
  {arr \in UNION {[1..n -> GivenItems] : n \in 0..MaxSeries} : TimeOrdered(arr)}

InitFn ==
  /\ \E arr \in GivenSeries :
       fn = [op |-> "given", series |-> arr, before |-> arr, start |-> 0, end |-> 0,
             result |-> Undefined]
  /\ chain = NoChain /\ head = 0 /\ blocks = <<>> /\ calls = NoCalls
  /\ fetch = NoFetch /\ main = NoMain

\* addFirstBalance(series, start)
AddFirstBalance(start) ==
  /\ Len(fn.series) < MaxSeries + 2
  /\ fn' = [op |-> "addFirstBalance", series |-> addFirstBalance(fn.series, start),
            before |-> fn.series, start |-> start, end |-> 0, result |-> Undefined]
  /\ UNCHANGED <<chain, head, blocks, calls, fetch, main>>

\* calculateTwap(series, start, end)
CalculateTwap(start, end) ==
  /\ fn' = [op |-> "calculateTwap", series |-> fn.series, before |-> fn.series,
            start |-> start, end |-> end,
            result |-> calculateTwap(fn.series, start, end)]
  /\ UNCHANGED <<chain, head, blocks, calls, fetch, main>>

NextFn ==
  \/ \E start \in 1..MaxTime : AddFirstBalance(start)
  \/ \E start \in 1..MaxTime : \E end \in (start + 1)..(MaxTime + 1) : CalculateTwap(start, end)

SpecFn == InitFn /\ [][NextFn]_vars

\* The price series given: ascending in time, the points half a second apart
\* or more.
GivenPoints == {[ms |-> 500 * k, price |-> FromInt(p)] : k \in 1..(2 * MaxTime), p \in 1..2}
GivenPrices ==
  {arr \in UNION {[1..n -> GivenPoints] : n \in 0..MaxPrices} :
     \A i \in 1..(Len(arr) - 1) : arr[i].ms <= arr[i + 1].ms}

InitPrice ==
  /\ \E arr \in GivenPrices :
       fn = [op |-> "given", prices |-> arr, timestamp |-> 0, result |-> [none |-> TRUE]]
  /\ chain = NoChain /\ head = 0 /\ blocks = <<>> /\ calls = NoCalls
  /\ fetch = NoFetch /\ main = NoMain

\* getCoingeckoPriceAt(tokenPrices, tokenAddress, timestamp)
GetCoingeckoPriceAt(timestamp) ==
  /\ fn' = [fn EXCEPT !.op = "getCoingeckoPriceAt", !.timestamp = timestamp,
                      !.result = getCoingeckoPriceAt(fn.prices, timestamp)]
  /\ UNCHANGED <<chain, head, blocks, calls, fetch, main>>

NextPrice == \E timestamp \in {NoTimestamp} \cup (0..(MaxTime + 1)) : GetCoingeckoPriceAt(timestamp)

SpecPrice == InitPrice /\ [][NextPrice]_vars

(***************************************************************************)
(* main() (src/unnamed/part_001, lines 177-349), with the functions it      *)
(* calls: the BlockFinder and getRateLimitedEvents above run inside it.     *)
(***************************************************************************)
\* earliestBlock (line 13) is 13012048 in the script, which only compares
\* block numbers with it and starts its fetches there: it is brought down
\* here to a block of a short chain.
EarliestBlock == 1
\* An ether has 18 decimals (toWei("1") is 10^18, and line 96): brought down
\* to keep 10^EtherDecimals times a balance within TLC's integers.
EtherDecimals == 2
\* The contract's log holds at most MaxEvents events.
MaxEvents == 2

ETH == "0x0000000000000000000000000000000000000000"
TokenA == "0xa47c"
Kinds ==
  <<"ETHDepositInitiated", "ERC20DepositInitiated",
    "ETHWithdrawalFinalized", "ERC20WithdrawalFinalized">>

\* The callbacks of getEthDepositInitiated, getErc20DepositInitiated,
\* getEthWithdrawalFinalized and getErc20WithdrawalFinalized, lines 53-91.
transactionOf(event) ==
  [token |-> IF event.kind \in {"ETHDepositInitiated", "ETHWithdrawalFinalized"}
               THEN ETH ELSE event.l1Token,
   netAmount |-> IF event.kind \in {"ETHWithdrawalFinalized", "ERC20WithdrawalFinalized"}
                   THEN -event.amount ELSE event.amount,
   blockNumber |-> event.blockNumber]

\* What getRateLimitedEvents returned, mapped (lines 54, 64, 74, 84): for
\* each block the requests covered, from the lo-th to the hi-th, the log's
\* events of the kind in that block.
RECURSIVE transactionsOf(_, _, _, _, _)
transactionsOf(log, kind, covered, lo, hi) ==
  IF lo > hi THEN <<>>
  ELSE IF lo = hi
    THEN LET here(event) == event.kind = kind /\ event.blockNumber = covered[lo]
             events == SelectSeq(log, here)
         IN [i \in 1..Len(events) |-> transactionOf(events[i])]
  ELSE transactionsOf(log, kind, covered, lo, (lo + hi) \div 2) \o
       transactionsOf(log, kind, covered, (lo + hi) \div 2 + 1, hi)

\* lodash.sortBy(arr, [key]): a stable sort.
insertSorted(sorted, x, key) ==
  LET n == Cardinality({i \in 1..Len(sorted) : sorted[i][key] <= x[key]})
  IN SubSeq(sorted, 1, n) \o <<x>> \o SubSeq(sorted, n + 1, Len(sorted))
RECURSIVE sortByUpTo(_, _, _)
sortByUpTo(arr, key, k) ==
  IF k = 0 THEN <<>> ELSE insertSorted(sortByUpTo(arr, key, k - 1), arr[k], key)
sortBy(arr, key) == sortByUpTo(arr, key, Len(arr))

\* The object balances: its keys in the order they were added, and the
\* series of each.
NoBalances == [order |-> <<>>, of |-> <<>>]
HasKey(object, key) == \E i \in 1..Len(object.order) : object.order[i] = key
SetKey(object, key, value) ==
  IF HasKey(object, key)
    THEN [object EXCEPT !.of = [k \in DOMAIN object.of |-> IF k = key THEN value ELSE object.of[k]]]
    ELSE [order |-> Append(object.order, key), of |-> object.of @@ (key :> value)]

\* A fold that overwrites the balance with each amount instead of adding it.
addTransactionNoSum(balances, transaction) ==
  LET item(rawBalance) ==
        Item(transaction.blockNumber, rawBalance, NoTimestamp, Undefined, Undefined, Undefined)
  IN IF HasKey(balances, transaction.token)
       THEN SetKey(balances, transaction.token,
                   Append(balances.of[transaction.token], item(transaction.netAmount)))
       ELSE SetKey(balances, transaction.token, <<item(transaction.netAmount)>>)

\* Lines 210-217: one transaction folded into balances.
addTransaction(balances, transaction) ==
  LET item(rawBalance) ==
        Item(transaction.blockNumber, rawBalance, NoTimestamp, Undefined, Undefined, Undefined)
  IN IF HasKey(balances, transaction.token)
       THEN LET series == balances.of[transaction.token]
            IN SetKey(balances, transaction.token,
                      Append(series, item(series[Len(series)].rawBalance + transaction.netAmount)))
       ELSE SetKey(balances, transaction.token, <<item(transaction.netAmount)>>)

\* Lines 208-218: balances after the first k sorted transactions.
RECURSIVE balancesOf(_, _)
balancesOf(sortedBridgeTransactions, k) ==
  IF k = 0 THEN NoBalances
  ELSE addTransaction(balancesOf(sortedBridgeTransactions, k - 1), sortedBridgeTransactions[k])

\* BN.div: the quotient, rounded towards 0.
bnDiv(a, b) == IF a >= 0 THEN a \div b ELSE -((-a) \div b)

\* Lines 224-227: fromWei(rawBalance.mul(toBN(toWei("1"))).div(toBN("10").pow(
\* toBN(tokenDecimals)))), a decimal string, as the Number it stands for where
\* it is used (lines 259, 275).
tokenBalanceOf(rawBalance, tokenDecimals) ==
  Round(bnDiv(rawBalance * Pow(10, EtherDecimals), Pow(10, tokenDecimals)),
        Pow(10, EtherDecimals))

\* getTokenDecimals(tokenAddress), lines 94-101, the token contracts answering
\* with decimals.
getTokenDecimals(tokenAddress, decimals) ==
  IF tokenAddress = ETH THEN EtherDecimals ELSE decimals[tokenAddress]

\* Lines 257-260 on one series: the items priced and valued, or the error
\* getCoingeckoPriceAt threw.
RECURSIVE valued(_, _, _)
valued(series, prices, k) ==
  IF k = 0 THEN [series |-> <<>>, error |-> "none"]
  ELSE LET sofar == valued(series, prices, k - 1)
           got == getCoingeckoPriceAt(prices, series[k].timestamp)
       IN IF sofar.error # "none" THEN sofar
          ELSE IF "throws" \in DOMAIN got THEN [series |-> <<>>, error |-> got.throws]
          ELSE [series |-> Append(sofar.series,
                                  [series[k] EXCEPT !.price = got.price,
                                                    !.value = JsMul(series[k].tokenBalance, got.price)]),
                error |-> "none"]

\* Lines 266-278: one price point merged into a series. The points lie on
\* whole seconds here, so that timestampPrice[0] / 1000 is an integer.
mergePoint(series, timestampPrice, fromTimestamp, toTimestamp) ==
  LET time == timestampPrice.ms \div 1000
      earlier == {i \in 1..Len(series) : JsLt(series[i].timestamp, time)}
      \* previousBalanceIndex, counted from 1; past the end when no item is earlier
      previousBalanceIndex == IF earlier = {} THEN Len(series) + 1
                              ELSE CHOOSE i \in earlier : \A j \in earlier : j <= i
      previous == series[previousBalanceIndex]
      updatedValue == Item(Undefined, Undefined, time, previous.tokenBalance,
                           timestampPrice.price,
                           JsMul(previous.tokenBalance, timestampPrice.price))
  IN IF timestampPrice.ms > 1000 * fromTimestamp /\ timestampPrice.ms < 1000 * toTimestamp
       THEN IF earlier = {} THEN [series |-> series, error |-> "TypeError"]
            ELSE [series |-> insertAt(series, previousBalanceIndex, updatedValue),
                  error |-> "none"]
       ELSE [series |-> series, error |-> "none"]

\* Lines 265-279: the first k price points merged into a series.
RECURSIVE merged(_, _, _, _, _)
merged(series, prices, fromTimestamp, toTimestamp, k) ==
  IF k = 0 THEN [series |-> series, error |-> "none"]
  ELSE LET sofar == merged(series, prices, fromTimestamp, toTimestamp, k - 1)
       IN IF sofar.error # "none" THEN sofar
          ELSE mergePoint(sofar.series, prices[k], fromTimestamp, toTimestamp)

\* combinedBalances items that take no previous value off.
RECURSIVE combinedOfNoPrevious(_, _, _, _)
combinedOfNoPrevious(tokenAddress, series, fromTimestamp, k) ==
  IF k = 0 THEN <<>>
  ELSE LET balanceItem == series[k]
           rest == combinedOfNoPrevious(tokenAddress, series, fromTimestamp, k - 1)
       IN IF ~Truthy(balanceItem.timestamp) \/ balanceItem.timestamp < fromTimestamp
            THEN rest
            ELSE Append(rest, [tokenAddress |-> tokenAddress,
                               timestamp |-> balanceItem.timestamp,
                               value |-> balanceItem.value,
                               previousValue |-> FromInt(0)])

\* Lines 285-295: what the first k items of a token's series add to
\* combinedBalances.
RECURSIVE combinedOf(_, _, _, _)
combinedOf(tokenAddress, series, fromTimestamp, k) ==
  IF k = 0 THEN <<>>
  ELSE LET balanceItem == series[k]
           previousValue == IF k > 1 /\ JsGe(series[k - 1].timestamp, fromTimestamp)
                              THEN series[k - 1].value ELSE FromInt(0)
           rest == combinedOf(tokenAddress, series, fromTimestamp, k - 1)
       IN IF ~Truthy(balanceItem.timestamp) \/ balanceItem.timestamp < fromTimestamp
            THEN rest
            ELSE Append(rest, [tokenAddress |-> tokenAddress,
                               timestamp |-> balanceItem.timestamp,
                               value |-> balanceItem.value,
                               previousValue |-> previousValue])

\* Lines 284-296: combinedBalances, over the first k tokens.
RECURSIVE combinedBalances(_, _, _)
combinedBalances(balances, fromTimestamp, k) ==
  IF k = 0 THEN <<>>
  ELSE combinedBalances(balances, fromTimestamp, k - 1) \o
       combinedOf(balances.order[k], balances.of[balances.order[k]], fromTimestamp,
                  Len(balances.of[balances.order[k]]))

TotalItem(timestamp, value) == Item(Undefined, Undefined, timestamp, Undefined, Undefined, value)

\* A Total that sums the values, forgetting to take the previous ones off.
RECURSIVE totalNoDelta(_, _)
totalNoDelta(sortedBalances, k) ==
  IF k = 0 THEN <<>>
  ELSE LET total == totalNoDelta(sortedBalances, k - 1)
           balanceItem == sortedBalances[k]
           last == total[Len(total)]
       IN IF Len(total) = 0 THEN <<TotalItem(balanceItem.timestamp, balanceItem.value)>>
          ELSE IF last.timestamp < balanceItem.timestamp
            THEN Append(total, TotalItem(balanceItem.timestamp,
                                         JsAdd(last.value, balanceItem.value)))
          ELSE [total EXCEPT ![Len(total)].value = JsAdd(last.value, balanceItem.value)]

\* Lines 298-312: balances["Total"] after the first k sorted items.
RECURSIVE totalOf(_, _)
totalOf(sortedBalances, k) ==
  IF k = 0 THEN <<>>
  ELSE LET total == totalOf(sortedBalances, k - 1)
           balanceItem == sortedBalances[k]
           last == total[Len(total)]
       IN IF Len(total) = 0 THEN <<TotalItem(balanceItem.timestamp, balanceItem.value)>>
          ELSE IF last.timestamp < balanceItem.timestamp
            THEN Append(total,
                        TotalItem(balanceItem.timestamp,
                                  JsSub(JsAdd(last.value, balanceItem.value),
                                        balanceItem.previousValue)))
          ELSE [total EXCEPT ![Len(total)].value =
                  JsAdd(last.value, JsSub(balanceItem.value, balanceItem.previousValue))]

\* Lines 318-321: the loop over the intervals from startTimestamp on: the
\* series seeded, and the TWAP of each interval.
RECURSIVE twapsFrom(_, _, _, _)
twapsFrom(series, startTimestamp, toTimestamp, interval) ==
  IF startTimestamp < toTimestamp
    THEN LET seeded == addFirstBalance(series, startTimestamp)
             rest == twapsFrom(seeded, startTimestamp + interval, toTimestamp, interval)
         IN [series |-> rest.series,
             twaps |-> <<[start |-> startTimestamp,
                          twap |-> calculateTwap(seeded, startTimestamp,
                                                 startTimestamp + interval)]>> \o rest.twaps]
    ELSE [series |-> series, twaps |-> <<>>]

\* Lines 317-322, for one token: its series, its interval TWAPs and "All".
twapsOf(series, fromTimestamp, toTimestamp, interval) ==
  LET loop == twapsFrom(series, fromTimestamp, toTimestamp, interval)
  IN [series |-> loop.series, twaps |-> loop.twaps,
      All |-> calculateTwap(loop.series, fromTimestamp, toTimestamp)]

\* Lines 256-261: the series of the first k tokens priced and valued, or the
\* first error thrown.
RECURSIVE valuedAll(_, _, _)
valuedAll(balances, tokenPrices, k) ==
  IF k = 0 THEN [balances |-> balances, error |-> "none"]
  ELSE LET sofar == valuedAll(balances, tokenPrices, k - 1)
           tokenAddress == balances.order[k]
           got == valued(balances.of[tokenAddress], tokenPrices[tokenAddress],
                         Len(balances.of[tokenAddress]))
       IN IF sofar.error # "none" THEN sofar
          ELSE IF got.error # "none" THEN [balances |-> balances, error |-> got.error]
          ELSE [balances |-> SetKey(sofar.balances, tokenAddress, got.series),
                error |-> "none"]

\* Lines 264-280: the price points of the first k tokens merged into their
\* series, or the error thrown.
RECURSIVE mergedAll(_, _, _, _, _)
mergedAll(balances, tokenPrices, fromTimestamp, toTimestamp, k) ==
  IF k = 0 THEN [balances |-> balances, error |-> "none"]
  ELSE LET sofar == mergedAll(balances, tokenPrices, fromTimestamp, toTimestamp, k - 1)
           tokenAddress == balances.order[k]
           got == merged(balances.of[tokenAddress], tokenPrices[tokenAddress],
                         fromTimestamp, toTimestamp, Len(tokenPrices[tokenAddress]))
       IN IF sofar.error # "none" THEN sofar
          ELSE IF got.error # "none" THEN [balances |-> balances, error |-> got.error]
          ELSE [balances |-> SetKey(sofar.balances, tokenAddress, got.series),
                error |-> "none"]

\* Lines 315-323: the TWAPs of the first k keys of balances, and the series
\* the loop seeded.
RECURSIVE twapsAll(_, _, _, _, _)
twapsAll(balances, fromTimestamp, toTimestamp, interval, k) ==
  IF k = 0 THEN [balances |-> balances, twaps |-> NoBalances]
  ELSE LET sofar == twapsAll(balances, fromTimestamp, toTimestamp, interval, k - 1)
           tokenAddress == balances.order[k]
           got == twapsOf(balances.of[tokenAddress], fromTimestamp, toTimestamp, interval)
       IN [balances |-> SetKey(sofar.balances, tokenAddress, got.series),
           twaps |-> SetKey(sofar.twaps, tokenAddress,
                            [intervals |-> got.twaps, All |-> got.All])]

\* Lines 235-237: every series seeded at fromTimestamp.
RECURSIVE seededAll(_, _, _)
seededAll(balances, fromTimestamp, k) ==
  IF k = 0 THEN balances
  ELSE SetKey(seededAll(balances, fromTimestamp, k - 1), balances.order[k],
              addFirstBalance(balances.of[balances.order[k]], fromTimestamp))

\* A run of main(): its arguments, what the chain, the token contracts and
\* CoinGecko hold (log, decimals, prices), and its locals.
StartOf(given) ==
  [pc |-> "start", error |-> "none",
   fromTimestamp |-> given.fromTimestamp, toTimestamp |-> given.toTimestamp,
   interval |-> given.interval,
   log |-> given.log, decimals |-> given.decimals, prices |-> given.prices,
   fromBlock |-> 0, toBlock |-> 0, kind |-> 0,
   rawBridgeTransactions |-> <<>>, sortedBridgeTransactions |-> <<>>,
   balances |-> NoBalances, token |-> 0, index |-> 0,
   tokenPrices |-> <<>>, twaps |-> NoBalances]

\* main() rejects with the error.
Fatal(error) == [main EXCEPT !.pc = "failed", !.error = error]

\* Lines 179-193: the arguments, and the call for the block of fromTimestamp.
MainStart ==
  /\ main.pc = "start"
  /\ \/ /\ main.fromTimestamp > main.toTimestamp
        /\ main' = Fatal("--from timestamp cannot be higher than --to timestamp")
        /\ UNCHANGED <<chain, head, blocks, calls>>
     \/ /\ main.fromTimestamp <= main.toTimestamp
        /\ GetBlockForTimestamp(1, main.fromTimestamp)
        /\ main' = [main EXCEPT !.pc = "fromBlock"]
  /\ UNCHANGED <<fetch, fn>>

\* Lines 193-194: fromBlock, and the call for the block of toTimestamp.
MainFromBlock ==
  /\ main.pc = "fromBlock"
  /\ \/ /\ calls[1].pc = "failed"
        /\ main' = Fatal(calls[1].error)
        /\ UNCHANGED <<chain, head, blocks, calls>>
     \/ /\ calls[1].pc = "done"
        /\ GetBlockForTimestamp(1, main.toTimestamp)
        /\ main' = [main EXCEPT !.pc = "toBlock", !.fromBlock = calls[1].result.number]
  /\ UNCHANGED <<fetch, fn>>

\* A main() that starts the fetches before it looks at toBlock.
MainToBlockFetchesFirst ==
  /\ main.pc = "toBlock"
  /\ \/ /\ calls[1].pc = "failed"
        /\ main' = Fatal(calls[1].error)
        /\ UNCHANGED fetch
     \/ /\ calls[1].pc = "done"
        /\ main' = [main EXCEPT !.pc = "events", !.toBlock = calls[1].result.number,
                                !.kind = 1]
        /\ fetch' = getRateLimitedEvents(EarliestBlock, calls[1].result.number)
  /\ UNCHANGED <<chain, head, blocks, calls, fn>>

\* Lines 194-204: toBlock, and the first of the four fetches, each of which
\* starts at earliestBlock (lines 54, 64, 74, 84). The four run one after the
\* other here: none reads what another writes.
MainToBlock ==
  /\ main.pc = "toBlock"
  /\ \/ /\ calls[1].pc = "failed"
        /\ main' = Fatal(calls[1].error)
        /\ UNCHANGED fetch
     \/ /\ calls[1].pc = "done"
        /\ calls[1].result.number < EarliestBlock
        /\ main' = Fatal("--to timestamp cannot be earlier than L1StandardBridge deployment")
        /\ UNCHANGED fetch
     \/ /\ calls[1].pc = "done"
        /\ calls[1].result.number >= EarliestBlock
        /\ main' = [main EXCEPT !.pc = "events", !.toBlock = calls[1].result.number,
                                !.kind = 1]
        /\ fetch' = getRateLimitedEvents(EarliestBlock, calls[1].result.number)
  /\ UNCHANGED <<chain, head, blocks, calls, fn>>

\* Lines 199-218: a fetch has returned. After the last one, the transactions
\* sorted and folded into balances.
MainEvents ==
  /\ main.pc = "events"
  /\ fetch.pc = "done"
  /\ LET raw == main.rawBridgeTransactions \o
                transactionsOf(main.log, Kinds[main.kind], fetch.events, 1, Len(fetch.events))
         sorted == sortBy(raw, "blockNumber")
     IN IF main.kind < Len(Kinds)
          THEN /\ main' = [main EXCEPT !.kind = @ + 1, !.rawBridgeTransactions = raw]
               /\ fetch' = getRateLimitedEvents(EarliestBlock, main.toBlock)
          ELSE /\ main' = [main EXCEPT !.pc = "timestamps",
                                       !.rawBridgeTransactions = raw,
                                       !.sortedBridgeTransactions = sorted,
                                       !.balances = balancesOf(sorted, Len(sorted)),
                                       !.token = 1, !.index = 1]
               /\ UNCHANGED fetch
  /\ UNCHANGED <<chain, head, blocks, calls, fn>>

\* Lines 221-232: the loops have come to the next item after this one.
nextItem(m) ==
  IF m.index < Len(m.balances.of[m.balances.order[m.token]])
    THEN [m EXCEPT !.pc = "timestamps", !.index = @ + 1]
    ELSE [m EXCEPT !.pc = "timestamps", !.token = @ + 1, !.index = 1]

\* Lines 221-237: the next item scaled, and its block asked for when it lies
\* in the range; after the last item, every series seeded at fromTimestamp.
MainTimestamps ==
  /\ main.pc = "timestamps"
  /\ IF main.token > Len(main.balances.order)
       THEN /\ main' = [main EXCEPT !.pc = "prices",
                          !.balances = seededAll(main.balances, main.fromTimestamp,
                                                 Len(main.balances.order))]
            /\ UNCHANGED <<chain, head, blocks, calls>>
       ELSE LET tokenAddress == main.balances.order[main.token]
                balanceItem == main.balances.of[tokenAddress][main.index]
                tokenDecimals == getTokenDecimals(tokenAddress, main.decimals)
                scaled == [main EXCEPT !.balances.of[tokenAddress][main.index].tokenBalance =
                             tokenBalanceOf(balanceItem.rawBalance, tokenDecimals)]
            IN IF balanceItem.blockNumber >= main.fromBlock
                 THEN /\ GetBlock(1, balanceItem.blockNumber)
                      /\ main' = [scaled EXCEPT !.pc = "getBlock"]
                 ELSE /\ main' = nextItem(scaled)
                      /\ UNCHANGED <<chain, head, blocks, calls>>
  /\ UNCHANGED <<fetch, fn>>

\* Line 229: the block has arrived.
MainGetBlock ==
  /\ main.pc = "getBlock"
  /\ calls[1].pc = "done"
  /\ LET tokenAddress == main.balances.order[main.token]
     IN main' = nextItem([main EXCEPT !.balances.of[tokenAddress][main.index].timestamp =
                            calls[1].result.timestamp])
  /\ UNCHANGED <<chain, head, blocks, calls, fetch, fn>>

\* Lines 240-261: CoinGecko has answered for every token, and the items are
\* priced and valued.
MainPrices ==
  /\ main.pc = "prices"
  /\ LET tokenPrices == [tokenAddress \in {main.balances.order[i] : i \in 1..Len(main.balances.order)}
                           |-> main.prices[tokenAddress]]
         got == valuedAll(main.balances, tokenPrices, Len(main.balances.order))
     IN main' = IF got.error # "none" THEN Fatal(got.error)
                ELSE [main EXCEPT !.pc = "merge", !.tokenPrices = tokenPrices,
                                  !.balances = got.balances]
  /\ UNCHANGED <<chain, head, blocks, calls, fetch, fn>>

\* Line 121: CoinGecko has answered a request with a status other than 200.
MainPricesFail ==
  /\ main.pc = "prices"
  /\ Len(main.balances.order) > 0
  /\ main' = Fatal("failed to fetch CoinGecko prices")
  /\ UNCHANGED <<chain, head, blocks, calls, fetch, fn>>

\* Lines 264-280: the price points within the range merged into the series.
MainMerge ==
  /\ main.pc = "merge"
  /\ LET got == mergedAll(main.balances, main.tokenPrices, main.fromTimestamp,
                          main.toTimestamp, Len(main.balances.order))
     IN main' = IF got.error # "none" THEN Fatal(got.error)
                ELSE [main EXCEPT !.pc = "total", !.balances = got.balances]
  /\ UNCHANGED <<chain, head, blocks, calls, fetch, fn>>

\* Lines 283-312: balances["Total"].
MainTotal ==
  /\ main.pc = "total"
  /\ LET sortedBalances ==
           sortBy(combinedBalances(main.balances, main.fromTimestamp,
                                   Len(main.balances.order)), "timestamp")
     IN main' = [main EXCEPT !.pc = "twaps",
                   !.balances = SetKey(main.balances, "Total",
                                       totalOf(sortedBalances, Len(sortedBalances)))]
  /\ UNCHANGED <<chain, head, blocks, calls, fetch, fn>>

\* Lines 315-347: the TWAPs, and the output.
MainTwaps ==
  /\ main.pc = "twaps"
  /\ LET got == twapsAll(main.balances, main.fromTimestamp, main.toTimestamp,
                         main.interval, Len(main.balances.order))
     IN main' = [main EXCEPT !.pc = "done", !.balances = got.balances, !.twaps = got.twaps]
  /\ UNCHANGED <<chain, head, blocks, calls, fetch, fn>>

\* What the runs are given. Block n of MainChain has timestamp 2n + 2.
MainChain == <<2, 4, 6, 8>>
Amount ==
  [kind \in {Kinds[i] : i \in 1..Len(Kinds)} |->
     CASE kind = "ETHDepositInitiated" -> 500
       [] kind = "ERC20DepositInitiated" -> 7
       [] kind = "ETHWithdrawalFinalized" -> 200
       [] kind = "ERC20WithdrawalFinalized" -> 3]
Event(kind, blockNumber) ==
  [kind |-> kind, l1Token |-> TokenA, amount |-> Amount[kind], blockNumber |-> blockNumber]
\* The logs of at most n events, in block order, from earliestBlock on.
RECURSIVE Logs(_)
Logs(n) ==
  IF n = 0 THEN {<<>>}
  ELSE Logs(n - 1) \cup
       {Append(log, Event(Kinds[i], blockNumber)) :
          log \in {l \in Logs(n - 1) : Len(l) = n - 1},
          i \in 1..Len(Kinds),
          blockNumber \in EarliestBlock..(Len(MainChain) - 1)}
InBlockOrder(log) == \A i \in 1..(Len(log) - 1) : log[i].blockNumber <= log[i + 1].blockNumber
PricePoint(seconds, price) == [ms |-> 1000 * seconds, price |-> FromInt(price)]
PricesOf(ethPrices, tokenPrices) == (ETH :> ethPrices) @@ (TokenA :> tokenPrices)
DecimalsOf(tokenDecimals) == (TokenA :> tokenDecimals)

\* Every log, in one range with one price change inside it.
GivenLogs ==
  {[chain |-> MainChain, fromTimestamp |-> 6, toTimestamp |-> 9, interval |-> 2,
    log |-> log, decimals |-> DecimalsOf(0),
    prices |-> PricesOf(<<PricePoint(1, 2), PricePoint(7, 3)>>, <<PricePoint(1, 1)>>)] :
   log \in {l \in Logs(MaxEvents) : InBlockOrder(l)}}

\* A few logs, in every range and under every price series.
SomeLogs ==
  {<<>>,
   <<Event("ERC20DepositInitiated", 1), Event("ERC20DepositInitiated", 2)>>,
   <<Event("ETHDepositInitiated", 1), Event("ERC20DepositInitiated", 2),
     Event("ETHWithdrawalFinalized", 3)>>}
SomePrices ==
  {<<>>, <<PricePoint(1, 2)>>, <<PricePoint(7, 2)>>,
   <<PricePoint(1, 2), PricePoint(7, 3)>>,
   <<PricePoint(1, 2), PricePoint(5, 1), PricePoint(7, 3)>>}
FlatPrices == <<PricePoint(1, 2)>>
GivenRanges ==
  {[chain |-> MainChain, fromTimestamp |-> fromTimestamp, toTimestamp |-> toTimestamp,
    interval |-> interval, log |-> log, decimals |-> DecimalsOf(1),
    prices |-> prices] :
   fromTimestamp \in {1, 5, 6}, toTimestamp \in {3, 8, 9}, interval \in {1, 2},
   log \in SomeLogs,
   prices \in {PricesOf(some, FlatPrices) : some \in SomePrices} \cup
              {PricesOf(FlatPrices, some) : some \in SomePrices}}

\* Two deposits of 1000 and 500 of a token of 0 decimals in blocks 100 and 200
\* of a chain whose block n has timestamp 10n, a price of 2 throughout, the
\* range from 1000 to 2000 and the interval 500.
TwoDeposits ==
  {[chain |-> [i \in 1..201 |-> 10 * (i - 1)],
    fromTimestamp |-> 1000, toTimestamp |-> 2000, interval |-> 500,
    log |-> <<[kind |-> "ERC20DepositInitiated", l1Token |-> TokenA, amount |-> 1000,
               blockNumber |-> 100],
              [kind |-> "ERC20DepositInitiated", l1Token |-> TokenA, amount |-> 500,
               blockNumber |-> 200]>>,
    decimals |-> DecimalsOf(0),
    prices |-> PricesOf(<<>>, tokenPrices)] :
   tokenPrices \in {<<PricePoint(900, 2)>>,
                    <<PricePoint(900, 2), PricePoint(1200, 2), PricePoint(1800, 2)>>}}

\* Ranges that end before the block the bridge was deployed in.
BeforeBridge ==
  {[chain |-> MainChain, fromTimestamp |-> fromTimestamp, toTimestamp |-> toTimestamp,
    interval |-> 1, log |-> log, decimals |-> DecimalsOf(1),
    prices |-> PricesOf(FlatPrices, FlatPrices)] :
   fromTimestamp \in {2, 3}, toTimestamp \in {2, 3}, log \in SomeLogs}

InitMain ==
  /\ \E given \in GivenLogs \cup GivenRanges \cup TwoDeposits \cup BeforeBridge :
       /\ chain = given.chain
       /\ head = Len(given.chain) - 1
       /\ main = StartOf(given)
  /\ blocks = <<>> /\ calls = NoCalls /\ fetch = NoFetch /\ fn = NoFn

NextMain ==
  \/ MainStart
  \/ MainFromBlock
  \/ MainToBlock
  \/ MainEvents
  \/ MainTimestamps
  \/ MainGetBlock
  \/ MainPrices
  \/ MainPricesFail
  \/ MainMerge
  \/ MainTotal
  \/ MainTwaps
  \/ BlockFinderStep(1) /\ UNCHANGED <<fetch, fn, main>>
  \/ RequestSucceeds
  \/ RequestFails

SpecMain == InitMain /\ [][NextMain]_vars

(***************************************************************************)
(* The claims.                                                              *)
(***************************************************************************)
GbftReturns == calls[1].pc # "done" /\ calls'[1].pc = "done" /\ calls'[1].op = "getBlockForTimestamp"
GbftThrows == calls[1].pc # "failed" /\ calls'[1].pc = "failed" /\ calls'[1].op = "getBlockForTimestamp"

\* C1: on a chain whose timestamps increase with the block number, from every
\* cache reachable from the empty one, getBlockForTimestamp(T) with T not below
\* block 0's timestamp returns a block B of the chain with B.timestamp <= T,
\* and B is the chain head or block B.number + 1 has a timestamp > T.
C1_Supremum ==
  [][/\ GbftReturns =>
          LET B == calls'[1].result
              T == calls'[1].timestamp
          IN /\ B = Block(B.number)
             /\ B.timestamp <= T
             /\ B.number = head' \/ chain[B.number + 2] > T
     /\ GbftThrows => calls'[1].timestamp < chain[1]]_vars

\* C1's case: the block returned lies inside the chain, is not the head, was
\* found by the search between cached blocks, and its timestamp is below T.
C1_Witness ==
  /\ calls[1].pc = "done" /\ calls[1].op = "getBlockForTimestamp"
  /\ calls[1].result.number > 0 /\ calls[1].result.number + 1 < head
  /\ calls[1].result.timestamp < calls[1].timestamp
  /\ Len(blocks) >= 3

Covered(b) == Cardinality({i \in 1..Len(fetch.events) : fetch.events[i] = b})

\* C2: getRateLimitedEvents returns every event of the blocks fromBlock..toBlock,
\* toBlock included, exactly once, and no other, whichever requests failed.
C2_EveryEventOnce ==
  fetch.pc = "done" =>
    /\ \A b \in fetch.fromBlock..fetch.toBlock : Covered(b) = 1
    /\ \A i \in 1..Len(fetch.events) : fetch.events[i] \in fetch.fromBlock..fetch.toBlock

\* C3: whatever getBlockForTimestamp, getBlock and getLatestBlock calls were
\* made one after the other on a BlockFinder that began with an empty cache,
\* the cache is sorted strictly ascending by block number.
C3_CacheSorted ==
  \A i \in 1..(Len(blocks) - 1) : blocks[i].number < blocks[i + 1].number

\* C3's case: a call has just ended in the block-0 error, with three blocks
\* or more cached.
C3_Witness ==
  /\ calls[1].pc = "failed" /\ calls[1].error = "timestamp is before block 0"
  /\ Len(blocks) >= 3

InWindow(item) ==
  item.timestamp # NoTimestamp /\ item.timestamp >= fn.start /\ item.timestamp < fn.end
\* The series has an item at start, of value v, and every item in [start, end)
\* has the value v.
ConstantOver(v) ==
  /\ \E i \in 1..Len(fn.series) : fn.series[i].timestamp = fn.start /\ fn.series[i].value = v
  /\ \A i \in 1..Len(fn.series) : InWindow(fn.series[i]) => fn.series[i].value = v
\* The values, numbers, of the items in [start, end).
WindowValues ==
  {fn.series[i].value :
     i \in {j \in 1..Len(fn.series) : InWindow(fn.series[j]) /\ IsNum(fn.series[j].value)}}
\* v is an integer, and v * (end - start) needs no rounding.
Unrounded(v) == v.e >= 0 /\ Abs(Scaled(v, 0)) * (fn.end - fn.start) < Pow(2, SignificandBits)

Precedes(item) == item.timestamp = NoTimestamp \/ item.timestamp <= fn.start
SomePrecedes == \E j \in 1..Len(fn.before) : Precedes(fn.before[j])
\* The nearest item preceding start in the series before the call.
NearestPreceding ==
  fn.before[CHOOSE j \in 1..Len(fn.before) :
              Precedes(fn.before[j]) /\ \A i \in (j + 1)..Len(fn.before) : ~Precedes(fn.before[i])]
Without(arr, k) == SubSeq(arr, 1, k - 1) \o SubSeq(arr, k + 1, Len(arr))

\* C7: after addFirstBalance(series, start) on a time-ordered series with an
\* item preceding start, the series has an item at start with the balance and
\* the value of the nearest preceding item, and the other items are those of
\* before, in their order.
C7_SeedCopiesPreceding ==
  fn.op = "addFirstBalance" /\ SomePrecedes =>
    \E k \in 1..Len(fn.series) :
      /\ fn.series[k].timestamp = fn.start
      /\ fn.series[k].tokenBalance = NearestPreceding.tokenBalance
      /\ fn.series[k].value = NearestPreceding.value
      /\ Without(fn.series, k) = fn.before

\* C7's case: the seed went between an item without a timestamp and a later
\* item of another value.
C7_Witness ==
  /\ fn.op = "addFirstBalance" /\ Len(fn.before) >= 2
  /\ fn.before[1].timestamp = NoTimestamp
  /\ fn.before[2].timestamp > fn.start
  /\ fn.before[1].value # fn.before[2].value
  /\ fn.series[2].timestamp = fn.start

\* C8: on a series no item of which precedes start, the empty one included,
\* addFirstBalance(series, start) inserts an item at start with balance 0 and
\* value 0.
C8_ZeroSeed ==
  fn.op = "addFirstBalance" /\ ~SomePrecedes =>
    \E k \in 1..Len(fn.series) :
      /\ fn.series[k].timestamp = fn.start
      /\ fn.series[k].tokenBalance = FromInt(0)
      /\ fn.series[k].value = FromInt(0)
      /\ Without(fn.series, k) = fn.before

AtOrBefore(point) == point.ms <= 1000 * fn.timestamp
\* The last price point at or before the timestamp.
LastAtOrBefore ==
  fn.prices[CHOOSE i \in 1..Len(fn.prices) :
              AtOrBefore(fn.prices[i]) /\ \A j \in (i + 1)..Len(fn.prices) : ~AtOrBefore(fn.prices[j])]

\* C9: on an ascending price series and a timestamp not before the first price
\* point, getCoingeckoPriceAt returns the price of the last point at or before
\* the timestamp; after the last point that is the last price.
C9_LastPriceAtOrBefore ==
  /\ fn.op = "getCoingeckoPriceAt"
  /\ fn.timestamp # NoTimestamp
  /\ Len(fn.prices) > 0
  /\ AtOrBefore(fn.prices[1])
  => fn.result = [price |-> LastAtOrBefore.price]

\* C9's case: the timestamp lies between two points of different prices, the
\* earlier of which is not the first.
C9_Witness ==
  /\ fn.op = "getCoingeckoPriceAt" /\ fn.timestamp # NoTimestamp
  /\ Len(fn.prices) = 3
  /\ AtOrBefore(fn.prices[2]) /\ ~AtOrBefore(fn.prices[3])
  /\ fn.prices[1].price # fn.prices[2].price /\ fn.prices[2].price # fn.prices[3].price
  /\ fn.result = [price |-> fn.prices[2].price]

\* The run is one of TwoDeposits, and has ended with its output.
TwoDepositsDone ==
  /\ main.pc = "done"
  /\ \E given \in TwoDeposits :
       /\ chain = given.chain /\ main.log = given.log /\ main.prices = given.prices
       /\ main.fromTimestamp = given.fromTimestamp /\ main.toTimestamp = given.toTimestamp
       /\ main.interval = given.interval /\ main.decimals = given.decimals
TotalTwaps(first, second, all) ==
  /\ main.twaps.of["Total"].intervals =
       <<[start |-> 1000, twap |-> FromInt(first)], [start |-> 1500, twap |-> FromInt(second)]>>
  /\ main.twaps.of["Total"].All = FromInt(all)

Signed(event) ==
  IF event.kind \in {"ETHDepositInitiated", "ERC20DepositInitiated"}
    THEN event.amount ELSE 0 - event.amount
AssetOf(event) ==
  IF event.kind \in {"ETHDepositInitiated", "ETHWithdrawalFinalized"} THEN ETH ELSE event.l1Token
RECURSIVE SumOfNet(_, _)
SumOfNet(transactions, k) ==
  IF k = 0 THEN 0 ELSE SumOfNet(transactions, k - 1) + transactions[k].netAmount
\* The transactions of an asset that the fetches returned, in the order they
\* came in, and those of them in the blocks up to a block.
Observed(tokenAddress) ==
  LET mine(transaction) == transaction.token = tokenAddress
  IN SelectSeq(main.rawBridgeTransactions, mine)
ObservedUpTo(tokenAddress, blockNumber) ==
  LET early(transaction) == transaction.blockNumber <= blockNumber
  IN SelectSeq(Observed(tokenAddress), early)
ObservedIn(tokenAddress, blockNumber) ==
  LET here(transaction) == transaction.blockNumber = blockNumber
  IN SelectSeq(Observed(tokenAddress), here)
Reconstructed == main.pc \in {"timestamps", "getBlock"}

\* C6: once balances is reconstructed, every transaction the fetches returned
\* carries the signed amount of an event of the log of its asset and block;
\* each asset's series has one sample per transaction of the asset, in
\* ascending block order; the samples of a block add that block's signed
\* amounts one by one, in the order the fetches returned them, to the sum of
\* the signed amounts of all earlier blocks; and the last sample's rawBalance
\* is the sum of all the asset's signed amounts, in whatever order the
\* fetches returned them.
C6_RunningSum ==
  Reconstructed =>
    /\ \A i \in 1..Len(main.rawBridgeTransactions) :
         \E j \in 1..Len(main.log) :
           /\ AssetOf(main.log[j]) = main.rawBridgeTransactions[i].token
           /\ main.log[j].blockNumber = main.rawBridgeTransactions[i].blockNumber
           /\ Signed(main.log[j]) = main.rawBridgeTransactions[i].netAmount
    /\ \A tokenAddress \in {main.rawBridgeTransactions[i].token :
                              i \in 1..Len(main.rawBridgeTransactions)} :
         /\ HasKey(main.balances, tokenAddress)
         /\ LET series == main.balances.of[tokenAddress]
                all == Observed(tokenAddress)
            IN /\ Len(series) = Len(all)
               /\ \A k \in 1..(Len(series) - 1) :
                    series[k].blockNumber <= series[k + 1].blockNumber
               /\ \A k \in 1..Len(series) :
                    LET before == ObservedUpTo(tokenAddress, series[k].blockNumber - 1)
                        here == ObservedIn(tokenAddress, series[k].blockNumber)
                    IN /\ k > Len(before) /\ k <= Len(before) + Len(here)
                       /\ series[k].rawBalance =
                            SumOfNet(before, Len(before)) + SumOfNet(here, k - Len(before))
               /\ series[Len(series)].rawBalance = SumOfNet(all, Len(all))
    /\ \A i \in 1..Len(main.balances.order) : Len(Observed(main.balances.order[i])) > 0
\* A withdrawal has been folded after a deposit that a later fetch returned.
C6_Witness ==
  /\ Reconstructed
  /\ \E i, j \in 1..Len(main.rawBridgeTransactions) :
       /\ i < j
       /\ main.rawBridgeTransactions[i].token = main.rawBridgeTransactions[j].token
       /\ main.rawBridgeTransactions[i].blockNumber > main.rawBridgeTransactions[j].blockNumber
       /\ main.rawBridgeTransactions[j].netAmount < 0
  /\ \E tokenAddress \in {ETH, TokenA} :
       /\ HasKey(main.balances, tokenAddress)
       /\ Len(main.balances.of[tokenAddress]) >= 2

\* The time of a sample: its timestamp, or that of its block when the sample
\* has none.
OwnTime(balanceItem) ==
  IF balanceItem.timestamp # NoTimestamp THEN balanceItem.timestamp
  ELSE chain[balanceItem.blockNumber + 1]

\* C10: once the samples are priced, every sample's time is at or after the
\* first price point of its asset (a lookup for an earlier one is fatal), and
\* its price is that of the last price point at or before its time: no price
\* comes from a later price point.
C10_NoLaterPrice ==
  main.pc = "merge" =>
    \A i \in 1..Len(main.balances.order) :
      LET tokenAddress == main.balances.order[i]
          series == main.balances.of[tokenAddress]
          prices == main.tokenPrices[tokenAddress]
      IN \A k \in 1..Len(series) :
           /\ \E p \in 1..Len(prices) : prices[p].ms <= 1000 * OwnTime(series[k])
           /\ series[k].price =
                prices[CHOOSE p \in 1..Len(prices) :
                         /\ prices[p].ms <= 1000 * OwnTime(series[k])
                         /\ \A q \in 1..Len(prices) :
                              prices[q].ms <= 1000 * OwnTime(series[k]) => q <= p].price

GbftEnds ==
  /\ calls[1].pc \notin {"done", "failed"} /\ calls'[1].pc \in {"done", "failed"}
  /\ calls'[1].op = "getBlockForTimestamp"

\* C11: a getBlockForTimestamp(T) call that ends with T below block 0's
\* timestamp ends in the error "timestamp is before block 0"; and a call ends
\* in that error only with T below block 0's timestamp, in a turn of the
\* backward walk, with block 0 fetched (first in the cache) and later than T.
C11_BeforeBlockZero ==
  [][GbftEnds =>
       LET T == calls'[1].timestamp
           raised == calls'[1].pc = "failed" /\ calls'[1].error = "timestamp is before block 0"
       IN /\ T < chain[1] => raised
          /\ raised =>
               /\ T < chain[1]
               /\ calls[1].pc \in {"walk", "walkRequest"}
               /\ Len(blocks') > 0 /\ blocks'[1] = Block(0) /\ blocks'[1].timestamp > T]_vars

\* C11's case: the walk took two probes or more to come to block 0, one second
\* after the timestamp asked for.
C11_Witness ==
  /\ calls[1].pc = "failed" /\ calls[1].error = "timestamp is before block 0"
  /\ calls[1].timestamp = chain[1] - 1
  /\ Len(blocks) >= 3 /\ blocks[1] = Block(0) /\ blocks[2].number > 0
  /\ blocks[Len(blocks)].number = head

\* The block of toTimestamp lies before the bridge's deployment block.
BeforeDeployment == main.toTimestamp < chain[EarliestBlock + 1]

\* No getPastEvents request, no decimals() call and no CoinGecko request has
\* been made: no fetch has started, the loop of lines 221-232 has not begun,
\* and nothing has come from CoinGecko.
NothingRequested ==
  /\ fetch = NoFetch /\ main.kind = 0 /\ main.rawBridgeTransactions = <<>>
  /\ main.token = 0 /\ main.index = 0 /\ main.balances = NoBalances
  /\ main.tokenPrices = <<>>

\* C12: a run with fromTimestamp > toTimestamp, or with a toTimestamp whose
\* block lies before the deployment block, goes no further than the two
\* getBlockForTimestamp calls before it fails, its step at the check is the
\* failing one, it fails with the error of the check it did not pass (or with
\* the BlockFinder's), and it has made no event, decimals or price request.
C12_RejectedBeforeAnyRequest ==
  /\ (main.fromTimestamp > main.toTimestamp \/ BeforeDeployment) =>
       /\ main.pc \in {"start", "fromBlock", "toBlock", "failed"}
       /\ NothingRequested
       /\ main.pc # "failed" => ENABLED NextMain
  /\ main.fromTimestamp > main.toTimestamp =>
       /\ main.pc \in {"start", "failed"}
       /\ blocks = <<>> /\ calls = NoCalls
       /\ main.pc = "failed" =>
            main.error = "--from timestamp cannot be higher than --to timestamp"
  /\ (main.fromTimestamp <= main.toTimestamp /\ BeforeDeployment /\ main.pc = "failed") =>
       IF main.fromTimestamp < chain[1]
         THEN main.error = "timestamp is before block 0"
         ELSE main.error = "--to timestamp cannot be earlier than L1StandardBridge deployment"

\* C12's case: the run has failed at line 195, on a block the BlockFinder
\* returned for toTimestamp.
C12_Witness ==
  /\ main.pc = "failed"
  /\ main.error = "--to timestamp cannot be earlier than L1StandardBridge deployment"
  /\ main.fromTimestamp <= main.toTimestamp /\ BeforeDeployment
  /\ calls[1].pc = "done" /\ calls[1].result.number < EarliestBlock
  /\ NothingRequested

\* The request the loop makes next (lines 35-38): its first block, its last
\* block and the window it was cut from.
RequestStart(f) == f.lastBlock + 1
RequestEnd(f) == Min(f.lastBlock + f.blockRange, f.toBlock)
RequestWindow(f) == f.blockRange

\* C13: the first request of getRateLimitedEvents has the whole range as its
\* window; the request after one that failed starts at the same block with
\* the window max(floor(window / 2), 1); the request after one that succeeded
\* and was not the last starts at the block after the last block that one
\* covered, with twice the window; and no request ends beyond toBlock.
C13_WindowSchedule ==
  /\ (RequestStart(fetch) = fetch.fromBlock
      /\ RequestWindow(fetch) = fetch.toBlock - fetch.fromBlock + 1)
  /\ [][fetch.pc = "request" =>
          /\ RequestEnd(fetch) <= fetch.toBlock
          /\ RequestEnd(fetch) >= RequestStart(fetch)
          /\ (fetch'.pc = "request" /\ fetch'.events = fetch.events) =>
               /\ RequestStart(fetch') = RequestStart(fetch)
               /\ RequestWindow(fetch') = Max(RequestWindow(fetch) \div 2, 1)
          /\ (fetch'.pc = "request" /\ fetch'.events # fetch.events) =>
               /\ fetch'.events = fetch.events \o
                    getPastEvents(RequestStart(fetch), RequestEnd(fetch))
               /\ RequestStart(fetch') = RequestEnd(fetch) + 1
               /\ RequestWindow(fetch') = 2 * RequestWindow(fetch)
               /\ RequestEnd(fetch') <= fetch.toBlock]_vars

\* C13's case: requests failed until the window was 1, one then succeeded, and
\* the next request starts one block on with the window 2.
C13_Witness ==
  /\ fetch.pc = "request" /\ fetch.failures = MaxFailures
  /\ fetch.events = <<fetch.fromBlock>>
  /\ RequestStart(fetch) = fetch.fromBlock + 1 /\ RequestWindow(fetch) = 2
  /\ RequestEnd(fetch) < fetch.toBlock

\* The request was served: its events have come.
ServedStep == fetch.pc = "request" /\ fetch'.events # fetch.events

\* C14: against a node that serves requests within some window in the end,
\* getRateLimitedEvents returns; against one that refuses every request it
\* never returns, its start block stays fromBlock and its window comes to 1
\* and stays 1. In every step the start block does not go back, and the loop
\* ends with a served request exactly when the start block after it,
\* start + window, has come to toBlock.
C14_Terminates ==
  /\ fetch.limit >= 1 => <>(fetch.pc = "done")
  /\ fetch.limit = 0 =>
       /\ [](fetch.pc = "request" /\ RequestStart(fetch) = fetch.fromBlock)
       /\ <>[](RequestWindow(fetch) = 1)
  /\ [][/\ RequestStart(fetch') >= RequestStart(fetch)
        /\ fetch'.pc = "done" => ServedStep
        /\ ServedStep =>
             (fetch'.pc = "done" <=>
                RequestStart(fetch) + RequestWindow(fetch) >= fetch.toBlock)]_vars

\* C14's case: the call has returned from a node that serves one block at a
\* time, after four served requests or more.
C14_Witness ==
  /\ fetch.pc = "done" /\ fetch.limit = 1
  /\ fetch.toBlock - fetch.fromBlock >= 4
  /\ Len(fetch.events) >= 4

GbftRuns ==
  /\ calls[1].op = "getBlockForTimestamp"
  /\ calls[1].pc \in {"gbftLatest", "walk", "walkRequest", "find", "findRequest"}
Walking == calls[1].pc \in {"walk", "walkRequest"}
InFindBlock == calls[1].pc \in {"find", "findRequest"}
BracketWidth(call) == call.endBlock.number - call.startBlock.number

\* C15: with a node that answers every request, a getBlockForTimestamp(T)
\* call with T at or after block 0's timestamp returns, and the backward walk
\* of any call ends; each findBlock call made by findBlock has a bracket
\* narrower than its caller's; and findBlock returns its endBlock when that
\* has the timestamp T, or its startBlock when the two are adjacent.
C15_Terminates ==
  /\ (GbftRuns /\ calls[1].timestamp >= chain[1]) ~> (calls[1].pc = "done")
  /\ Walking ~> ~Walking
  /\ [][/\ (InFindBlock /\ calls'[1].pc = "find" /\ calls'[1] # calls[1]) =>
             /\ BracketWidth(calls'[1]) < BracketWidth(calls[1])
             /\ BracketWidth(calls'[1]) >= 1
        /\ (InFindBlock /\ calls'[1].pc = "done") =>
             \/ /\ calls[1].endBlock.timestamp = calls[1].timestamp
                /\ calls'[1].result = calls[1].endBlock
             \/ /\ calls[1].endBlock.number = calls[1].startBlock.number + 1
                /\ calls'[1].result = calls[1].startBlock]_vars

\* C15's case: after a walk that went back three blocks or more, findBlock
\* is at an adjacent bracket around T that starts above the block the walk
\* came to.
C15_Witness ==
  /\ calls[1].pc = "find" /\ calls[1].multiplier >= 1
  /\ calls[1].endBlock.number = calls[1].startBlock.number + 1
  /\ calls[1].startBlock.timestamp < calls[1].timestamp
  /\ calls[1].timestamp < calls[1].endBlock.timestamp
  /\ calls[1].initialBlock.number >= 3
  /\ Max(0, calls[1].initialBlock.number - calls[1].multiplier * calls[1].incrementDistance)
       < calls[1].startBlock.number

\* findBlock is past its two returns of lines 69 and 73.
PastEarlyReturns(call) ==
  /\ call.endBlock.timestamp # call.timestamp
  /\ call.endBlock.number # call.startBlock.number + 1
Bracketing(call) ==
  /\ call.startBlock # NoBlock /\ call.endBlock # NoBlock
  /\ call.startBlock.number < call.endBlock.number
  /\ call.startBlock.timestamp < call.timestamp
  /\ call.timestamp < call.endBlock.timestamp
Inside(number, call) ==
  call.startBlock.number < number /\ number < call.endBlock.number

\* C16: a findBlock call made for getBlockForTimestamp(T) that is past its two
\* early returns has startBlock.number < endBlock.number and
\* startBlock.timestamp < T < endBlock.timestamp; no call ends in a failed
\* assertion or on an undefined block; and the block findBlock asks getBlock
\* for, cached or not, has a number strictly inside the bracket.
C16_BracketInvariant ==
  /\ [](/\ calls[1].error \notin {"AssertionError", "TypeError"}
        /\ (calls[1].pc = "find" /\ PastEarlyReturns(calls[1])) => Bracketing(calls[1])
        /\ calls[1].pc = "findRequest" =>
             /\ PastEarlyReturns(calls[1]) /\ Bracketing(calls[1])
             /\ Inside(calls[1].number, calls[1]))
  /\ [][(calls[1].pc = "find" /\ calls'[1].pc = "find" /\ calls'[1] # calls[1]) =>
          \/ /\ calls'[1].endBlock = calls[1].endBlock
             /\ Inside(calls'[1].startBlock.number, calls[1])
          \/ /\ calls'[1].startBlock = calls[1].startBlock
             /\ Inside(calls'[1].endBlock.number, calls[1])]_vars

\* C16's case: a findBlock call whose bracket does not start at block 0 and
\* is not adjacent has asked for a block that was not cached.
C16_Witness ==
  /\ calls[1].pc = "findRequest"
  /\ calls[1].startBlock.number >= 1
  /\ BracketWidth(calls[1]) >= 2
  /\ Len(blocks) >= 3

\* C17: with calls of two clients in flight together, the cache is sorted
\* strictly ascending by block number, so that no block is in it twice.
C17_SharedCacheSorted ==
  \A i \in 1..(Len(blocks) - 1) : blocks[i].number < blocks[i + 1].number

\* The step the claim gives for a gap in seconds: floor(gap * 1.1 / 13.5),
\* and 1 at least.
CushionedStep(gap) == Max((gap * 11) \div 135, 1)

\* C18: in the backward walk the step is the one estimated for the gap between
\* the earliest cached block and T with a cushion of 10%, 1 at least, and the
\* k-th probe is block max(0, earliest.number - k * step).
C18_WalkStep ==
  /\ Walking =>
       calls[1].incrementDistance =
         CushionedStep(calls[1].initialBlock.timestamp - calls[1].timestamp)
  /\ calls[1].pc = "walkRequest" =>
       calls[1].number =
         Max(0, calls[1].initialBlock.number - calls[1].multiplier * calls[1].incrementDistance)

\* The sum of the signed amounts of the first k events of the log that are of
\* an asset and lie in blocks with a timestamp at or before t.
RECURSIVE BalanceAt(_, _, _)
BalanceAt(tokenAddress, t, k) ==
  IF k = 0 THEN 0
  ELSE BalanceAt(tokenAddress, t, k - 1) +
       (IF AssetOf(main.log[k]) = tokenAddress /\ chain[main.log[k].blockNumber + 1] <= t
          THEN Signed(main.log[k]) ELSE 0)
\* The places of an asset's price points at or before t, and the price of the
\* last of them.
PointsBy(tokenAddress, t) ==
  {p \in 1..Len(main.prices[tokenAddress]) : main.prices[tokenAddress][p].ms <= 1000 * t}
PriceAt(tokenAddress, t) ==
  main.prices[tokenAddress][CHOOSE p \in PointsBy(tokenAddress, t) :
                              \A q \in PointsBy(tokenAddress, t) : q <= p].price
\* The value an asset has at t: its balance then, scaled by its decimals,
\* times its price then.
ValueAt(tokenAddress, t) ==
  JsMul(tokenBalanceOf(BalanceAt(tokenAddress, t, Len(main.log)),
                       getTokenDecimals(tokenAddress, main.decimals)),
        PriceAt(tokenAddress, t))
\* The places of a series' samples with a timestamp at or before t.
SamplesBy(series, t) ==
  {k \in 1..Len(series) : series[k].timestamp # NoTimestamp /\ series[k].timestamp <= t}
LastBy(series, t) == CHOOSE k \in SamplesBy(series, t) : \A j \in SamplesBy(series, t) : j <= k
Merged == main.pc = "total"

\* C19: after the price merge, for every asset and every time t of
\* [fromTimestamp, toTimestamp), the asset's last sample with a timestamp at
\* or before t has the value ValueAt(asset, t), an asset without a series has
\* the balance 0 at t, and every price point strictly inside the range has a
\* sample at its time with its price.
C19_ValueInEffect ==
  Merged =>
    \A tokenAddress \in {ETH, TokenA} :
      IF HasKey(main.balances, tokenAddress)
        THEN LET series == main.balances.of[tokenAddress]
             IN /\ \A t \in main.fromTimestamp..(main.toTimestamp - 1) :
                     /\ SamplesBy(series, t) # {}
                     /\ PointsBy(tokenAddress, t) # {}
                     /\ series[LastBy(series, t)].value = ValueAt(tokenAddress, t)
                /\ \A p \in 1..Len(main.prices[tokenAddress]) :
                     LET point == main.prices[tokenAddress][p]
                     IN (point.ms > 1000 * main.fromTimestamp
                         /\ point.ms < 1000 * main.toTimestamp) =>
                          \E k \in 1..Len(series) :
                            /\ 1000 * series[k].timestamp = point.ms
                            /\ series[k].price = point.price
        ELSE \A t \in main.fromTimestamp..(main.toTimestamp - 1) :
               BalanceAt(tokenAddress, t, Len(main.log)) = 0

\* Every event of the log in the blocks earliestBlock..toBlock has come from
\* the fetches.
AllFetched ==
  Len(main.rawBridgeTransactions) =
    Cardinality({j \in 1..Len(main.log) :
                   main.log[j].blockNumber \in EarliestBlock..main.toBlock})
C19_IfAllFetched == AllFetched => C19_ValueInEffect

Totalled == main.pc = "twaps"
\* The places of a series' samples with a timestamp in [fromTimestamp, t].
SamplesIn(series, t) ==
  {k \in 1..Len(series) : /\ series[k].timestamp # NoTimestamp
                          /\ series[k].timestamp >= main.fromTimestamp
                          /\ series[k].timestamp <= t}
LastIn(series, t) == CHOOSE k \in SamplesIn(series, t) : \A j \in SamplesIn(series, t) : j <= k
\* The assets with a series, in the order of balances, and the sum at t of
\* the values of the first k of them.
Assets == SelectSeq(main.balances.order, LAMBDA tokenAddress : tokenAddress # "Total")
RECURSIVE ResumAt(_, _)
ResumAt(t, k) ==
  IF k = 0 THEN FromInt(0)
  ELSE LET series == main.balances.of[Assets[k]]
       IN JsAdd(ResumAt(t, k - 1),
                IF SamplesIn(series, t) = {} THEN FromInt(0)
                ELSE series[LastIn(series, t)].value)
\* The timestamps, from fromTimestamp on, of the assets' samples.
SampleTimes ==
  UNION {{main.balances.of[Assets[a]][k].timestamp :
            k \in {j \in 1..Len(main.balances.of[Assets[a]]) :
                     /\ main.balances.of[Assets[a]][j].timestamp # NoTimestamp
                     /\ main.balances.of[Assets[a]][j].timestamp >= main.fromTimestamp}} :
         a \in 1..Len(Assets)}
OneEntryPerTime ==
  LET total == main.balances.of["Total"]
  IN /\ {total[k].timestamp : k \in 1..Len(total)} = SampleTimes
     /\ Len(total) = Cardinality(SampleTimes)
     /\ \A k \in 1..(Len(total) - 1) : total[k].timestamp < total[k + 1].timestamp

\* C20, as stated: every entry of the finished Total series has the value of
\* the sum, over the assets, of the value of the asset's last sample with a
\* timestamp in [fromTimestamp, t], t being the entry's timestamp; and Total
\* has one entry for each timestamp of a sample from fromTimestamp on.
C20_TotalIsResum ==
  Totalled =>
    /\ OneEntryPerTime
    /\ \A k \in 1..Len(main.balances.of["Total"]) :
         main.balances.of["Total"][k].value =
           ResumAt(main.balances.of["Total"][k].timestamp, Len(Assets))

\* The values of the assets' samples from fromTimestamp on.
SampleValues ==
  UNION {{main.balances.of[Assets[a]][k].value :
            k \in {j \in 1..Len(main.balances.of[Assets[a]]) :
                     /\ main.balances.of[Assets[a]][j].timestamp # NoTimestamp
                     /\ main.balances.of[Assets[a]][j].timestamp >= main.fromTimestamp}} :
         a \in 1..Len(Assets)}
\* No sum or difference the fold or the re-sum makes needs rounding: the
\* values are numbers, and in units of the smallest of their exponents each
\* of them is an integer below 2^SignificandBits / (number of assets + 1).
NoRounding ==
  /\ \A v \in SampleValues : IsNum(v)
  /\ \A v, w \in SampleValues :
       /\ v.e - w.e < SignificandBits
       /\ v.e >= w.e => Abs(v.m) < Pow(2, SignificandBits - (v.e - w.e))
       /\ v.e >= w.e =>
            Abs(v.m) * Pow(2, v.e - w.e) < Pow(2, SignificandBits) \div (Len(Assets) + 1)

\* C20, amended: the same, when no addition or subtraction needs rounding.
C20_TotalIsResumUnrounded ==
  Totalled =>
    /\ OneEntryPerTime
    /\ NoRounding =>
         \A k \in 1..Len(main.balances.of["Total"]) :
           main.balances.of["Total"][k].value =
             ResumAt(main.balances.of["Total"][k].timestamp, Len(Assets))

\* C20's case: a Total of two entries or more, not all of one value, over two
\* assets whose values need no rounding and are not all 0.
C20_Witness ==
  /\ Totalled /\ NoRounding /\ Len(Assets) = 2
  /\ Len(main.balances.of["Total"]) >= 2
  /\ \E k \in 2..Len(main.balances.of["Total"]) :
       /\ main.balances.of["Total"][k].value # main.balances.of["Total"][k - 1].value
       /\ main.balances.of["Total"][k - 1].value # FromInt(0)
  /\ \A a \in 1..2 : \E k \in 1..Len(main.balances.of[Assets[a]]) :
       /\ main.balances.of[Assets[a]][k].timestamp # NoTimestamp
       /\ main.balances.of[Assets[a]][k].timestamp >= main.fromTimestamp
       /\ main.balances.of[Assets[a]][k].value # FromInt(0)

\* The run has made its last calculateTwap call: balances holds every series
\* as the "All" call of line 322 was handed it.
TwapsDone == main.pc = "done"
\* The places of the samples of a series that have a timestamp.
Timed(series) == {k \in 1..Len(series) : series[k].timestamp # NoTimestamp}
NonDecreasing(series) ==
  \A i, j \in Timed(series) : i < j => series[i].timestamp <= series[j].timestamp
NoTwoAtOneTime(series) ==
  \A i, j \in Timed(series) : i < j => series[i].timestamp # series[j].timestamp

\* C21: every series handed to calculateTwap, each asset's and Total's, is
\* non-decreasing in timestamp and has no two samples with one timestamp.
C21_OrderedNoDuplicates ==
  TwapsDone =>
    \A i \in 1..Len(main.balances.order) :
      /\ NonDecreasing(main.balances.of[main.balances.order[i]])
      /\ NoTwoAtOneTime(main.balances.of[main.balances.order[i]])

\* The part of C21 that holds: the samples with a timestamp are in
\* non-decreasing order.
C21_OrderedOnly ==
  TwapsDone =>
    \A i \in 1..Len(main.balances.order) :
      NonDecreasing(main.balances.of[main.balances.order[i]])


\* a === b of JS on Numbers: NaN equals nothing, itself included.
JsEquals(a, b) == a = b /\ a # NaN /\ a # Undefined
\* The interval divides the range exactly.
Divides == (main.toTimestamp - main.fromTimestamp) % main.interval = 0
\* twap_1 * interval + ... + twap_k * interval of a token's sub-intervals.
RECURSIVE SumOfTwaps(_, _)
SumOfTwaps(tokenAddress, k) ==
  IF k = 0 THEN FromInt(0)
  ELSE JsAdd(SumOfTwaps(tokenAddress, k - 1),
             JsMul(main.twaps.of[tokenAddress].intervals[k].twap, FromInt(main.interval)))
\* The sum over the sub-intervals of twap_i * interval is twapAll * (to - from).
MeanOfIntervals(tokenAddress) ==
  JsEquals(SumOfTwaps(tokenAddress, Len(main.twaps.of[tokenAddress].intervals)),
           JsMul(main.twaps.of[tokenAddress].All,
                 FromInt(main.toTimestamp - main.fromTimestamp)))
\* On the series as it is after every seed, each sub-interval has the TWAP
\* that was computed for it before the later seeds were inserted.
LaterSeedsKeepEarlier(tokenAddress) ==
  \A k \in 1..Len(main.twaps.of[tokenAddress].intervals) :
    LET window == main.twaps.of[tokenAddress].intervals[k]
    IN JsEquals(calculateTwap(main.balances.of[tokenAddress], window.start,
                              window.start + main.interval),
                window.twap)
\* The step of the TWAP loop: the full range has, computed after every seed,
\* the TWAP it has on the series seeded for the first sub-interval only.
EarlierSeedsKeepAll ==
  main.pc = "twaps" /\ main'.pc = "done" =>
    \A i \in 1..Len(main.balances.order) :
      JsEquals(main'.twaps.of[main.balances.order[i]].All,
               calculateTwap(addFirstBalance(main.balances.of[main.balances.order[i]],
                                             main.fromTimestamp),
                             main.fromTimestamp, main.toTimestamp))

\* C22: when the interval divides to - from, the sum over a series'
\* sub-intervals of twap_i * interval equals twapAll * (to - from); and the
\* seeds of later sub-intervals change the TWAP of no window, computed before
\* or after they were inserted.
C22_MeanOfIntervals ==
  /\ [](TwapsDone =>
          \A i \in 1..Len(main.twaps.order) :
            /\ Divides => MeanOfIntervals(main.twaps.order[i])
            /\ LaterSeedsKeepEarlier(main.twaps.order[i]))
  /\ [][EarlierSeedsKeepAll]_vars


\* What holds of C22 where calculateTwap's results are numbers and were
\* computed without rounding. The samples of a window, the least exponent of
\* their values, and the window's cumulative value in units of 2^unit.
WindowOf(series, startTimestamp, endTimestamp) ==
  SelectSeq(series, LAMBDA balanceItem : /\ Truthy(balanceItem.timestamp)
                                         /\ balanceItem.timestamp >= startTimestamp
                                         /\ balanceItem.timestamp < endTimestamp)
UnitOf(numbers) ==
  IF numbers = {} THEN 0
  ELSE (CHOOSE x \in numbers : \A y \in numbers : x.e <= y.e).e
RECURSIVE ExactCumValue(_, _, _, _)
ExactCumValue(window, endTimestamp, unit, k) ==
  IF k = 0 THEN 0
  ELSE ExactCumValue(window, endTimestamp, unit, k - 1)
       + Scaled(window[k].value, unit)
         * ((IF k < Len(window) THEN window[k + 1].timestamp ELSE endTimestamp)
            - window[k].timestamp)
\* twap is the window's cumulative value over its length, exactly.
ExactTwap(twap, series, startTimestamp, endTimestamp) ==
  LET window == WindowOf(series, startTimestamp, endTimestamp)
      unit == UnitOf({window[k].value : k \in 1..Len(window)})
      cumValue == ExactCumValue(window, endTimestamp, unit, Len(window))
  IN /\ IsNum(twap)
     /\ \A k \in 1..Len(window) : IsNum(window[k].value)
     /\ IF twap.e >= unit
          THEN twap.m * Pow(2, twap.e - unit) * (endTimestamp - startTimestamp) = cumValue
          ELSE twap.m * (endTimestamp - startTimestamp) = cumValue * Pow(2, unit - twap.e)
\* Every TWAP of the token is exact.
ExactTwaps(tokenAddress) ==
  /\ ExactTwap(main.twaps.of[tokenAddress].All, main.balances.of[tokenAddress],
               main.fromTimestamp, main.toTimestamp)
  /\ \A k \in 1..Len(main.twaps.of[tokenAddress].intervals) :
       ExactTwap(main.twaps.of[tokenAddress].intervals[k].twap,
                 main.balances.of[tokenAddress],
                 main.twaps.of[tokenAddress].intervals[k].start,
                 main.twaps.of[tokenAddress].intervals[k].start + main.interval)
RECURSIVE ExactSumOfTwaps(_, _, _)
ExactSumOfTwaps(tokenAddress, unit, k) ==
  IF k = 0 THEN 0
  ELSE ExactSumOfTwaps(tokenAddress, unit, k - 1)
       + Scaled(main.twaps.of[tokenAddress].intervals[k].twap, unit) * main.interval
ExactMeanOfIntervals(tokenAddress) ==
  LET twaps == main.twaps.of[tokenAddress]
      unit == UnitOf({twaps.All} \cup {twaps.intervals[k].twap : k \in 1..Len(twaps.intervals)})
  IN ExactSumOfTwaps(tokenAddress, unit, Len(twaps.intervals))
       = Scaled(twaps.All, unit) * (main.toTimestamp - main.fromTimestamp)
\* The sum of twap_i * interval is twapAll * (to - from), in exact arithmetic,
\* for every token whose TWAPs are exact, when the interval divides to - from.
C22_WhereExact ==
  TwapsDone /\ Divides =>
    \A i \in 1..Len(main.twaps.order) :
      ExactTwaps(main.twaps.order[i]) => ExactMeanOfIntervals(main.twaps.order[i])
\* Its case: three sub-intervals of exact TWAPs, not all the same.
C22_WhereExactReached ==
  /\ TwapsDone /\ Divides
  /\ \E i \in 1..Len(main.twaps.order) :
       /\ ExactTwaps(main.twaps.order[i])
       /\ Len(main.twaps.of[main.twaps.order[i]].intervals) >= 3
       /\ \E k \in 2..Len(main.twaps.of[main.twaps.order[i]].intervals) :
            main.twaps.of[main.twaps.order[i]].intervals[k].twap
              # main.twaps.of[main.twaps.order[i]].intervals[k - 1].twap

\* Where a token's TWAPs are numbers, its sub-intervals have on the finished
\* series the TWAPs computed for them, rounding included.
C22_LaterSeedsKeepNumbers ==
  TwapsDone =>
    \A i \in 1..Len(main.twaps.order) :
      (\A k \in 1..Len(main.twaps.of[main.twaps.order[i]].intervals) :
         IsNum(main.twaps.of[main.twaps.order[i]].intervals[k].twap))
      => LaterSeedsKeepEarlier(main.twaps.order[i])

====
